---- MODULE Spec2Model ----
(***************************************************************************)
(* A model of zumaad/my_http_server: the request dispatcher                *)
(* (server/base_server.py, server/thread_per_request_server.py,            *)
(* myhttpserver.py) and the handlers it dispatches to                      *)
(* (handlers/http_handlers.py, handlers.py).                               *)
(*                                                                         *)
(* SpecB      the thread-per-request server: the selector loop, one thread *)
(*            per dispatched client socket, and the clients.               *)
(* FairSpecB  SpecB with the selector thread and every started thread      *)
(*            scheduled fairly.                                            *)
(* SpecStats  threads of the thread-per-request server in their calls of   *)
(*            update_statistics.                                           *)
(* SpecLB     threads of the thread-per-request server in the load         *)
(*            balancer's round_robin_strategy.                             *)
(* SpecSeq    the single-threaded server: one request after the other      *)
(*            through on_received_data and the handlers.                   *)
(* SpecA      myhttpserver.py: the selector loop that serves every request *)
(*            on its own thread, and the clients.                          *)
(* SpecSend, SpecMatch, SpecStatic, SpecWeighted                           *)
(*            one function each: the loop of send_all, should_handle,      *)
(*            StaticAssetHandler.handle_request, weighted_strategy.        *)
(* SpecManage ManageHandlers.pick_handlers over the settings maps.         *)
(* SpecRoute  on_received_data routing requests to the first handler that  *)
(*            should handle them, and what the handler then does.          *)
(* SpecAsync  the generator of the cooperative reverse proxy and load      *)
(*            balancer, stepped by the runtime.                            *)
(***************************************************************************)
EXTENDS Integers, Sequences, FiniteSets, TLC

(***************************************************************************)
(* Bounds of the model.                                                    *)
(***************************************************************************)
\* requests one client sends over its connection
MaxRequests == 1
\* threads alive at the same time on one client socket
MaxThreads == 2
\* threads that update the statistics at the same time
NumStatThreads == 3
\* threads that pick a server at the same time, and the picks of each
NumLBThreads == 2
MaxPicksPerThread == 2
\* requests the single-threaded server reads
MaxServed == 7
\* calls of client_socket.send in one send_all
MaxSends == 5
\* steps into which the numbers from 0.0 to 1.0 are divided
Precision == 4

\* the client connections of the model
Clients == {"c1", "c2"}

(***************************************************************************)
(* Program constants.                                                      *)
(***************************************************************************)
BUFFER_SIZE == 16384

(***************************************************************************)
(* Sequences.                                                              *)
(***************************************************************************)
\* str.startswith(prefix)
StartsWith(s, p) == Len(p) <= Len(s) /\ SubSeq(s, 1, Len(p)) = p

\* x in list
InList(x, l) == \E k \in 1..Len(l) : l[k] = x

(***************************************************************************)
(* Requests.  The bytes of a request are the lines that split('\r\n')      *)
(* yields; a line is the sequence of its fields (the request line split on *)
(* whitespace, a header line split on ': ').  A url is a sequence of       *)
(* characters.                                                             *)
(***************************************************************************)
UrlStaticA == <<"/", "s", "/", "a">>
UrlOther == <<"/", "x">>

\* request line, blank line, body
RawRequest(method, url, body) == << <<method, url, "HTTP/1.1">>, <<>>, <<body>> >>

\* GET /s/a: the static handler and the load balancer both match;
\* GET /x: only the load balancer matches; POST /x: no handler matches
RequestLines == {<<"GET", UrlStaticA>>, <<"GET", UrlOther>>, <<"POST", UrlOther>>}

\* the requests a client sends carry its name as their body
RawRequestsOf(c) == {RawRequest(l[1], l[2], c) : l \in RequestLines}

\* the first two words of the first line, the headers of lines[1:-2]
ParseFails(raw) ==
    \/ Len(raw[1]) < 2
    \/ \E k \in 2..(Len(raw) - 2) : Len(raw[k]) < 2

parse_http_request(raw) ==
    [method |-> raw[1][1],
     requested_url |-> raw[1][2],
     headers |-> [n \in {raw[k][1] : k \in 2..(Len(raw) - 2)} |->
                    LET last == CHOOSE k \in 2..(Len(raw) - 2) :
                                  /\ raw[k][1] = n
                                  /\ \A j \in (k + 1)..(Len(raw) - 2) : raw[j][1] # n
                    IN raw[last][2]],
     payload |-> raw[Len(raw)]]

(***************************************************************************)
(* Handlers.  request_handlers is the list the handler manager prepares:   *)
(* a static handler for urls under /s/, then a round-robin load balancer   *)
(* for every GET.                                                          *)
(***************************************************************************)
request_handlers ==
    << [type |-> "serveStatic",
        criteria |-> [url |-> << <<"/", "s", "/">> >>]],
       [type |-> "loadBalance",
        criteria |-> [method |-> <<"GET">>]] >>

NumHandlers == Len(request_handlers)

RequestAttribute(http_request, name) ==
    IF name = "url" THEN http_request.requested_url
    ELSE IF name = "method" THEN http_request.method
    ELSE http_request.headers[name]

\* actual_request_attribute_value.startswith(tuple(required_attribute_values))
StartsWithAny(value, prefixes) ==
    \E k \in 1..Len(prefixes) : StartsWith(value, prefixes[k])

\* the for loop of should_handle over the criteria still to look at: False
\* at the first one the request does not meet, True when none is left
RECURSIVE CriteriaMet(_, _, _)
CriteriaMet(criteria, names, http_request) ==
    IF names = {} THEN TRUE
    ELSE LET name == CHOOSE n \in names : TRUE
             met == IF name = "url"
                    THEN StartsWithAny(RequestAttribute(http_request, name), criteria[name])
                    ELSE InList(RequestAttribute(http_request, name), criteria[name])
         IN IF ~met THEN FALSE
            ELSE CriteriaMet(criteria, names \ {name}, http_request)

\* a loop that returns True at the first criterion the request meets
ShouldHandleOnFirstMet(handler, http_request) ==
    \/ DOMAIN handler.criteria = {}
    \/ \E name \in DOMAIN handler.criteria :
          CriteriaMet(handler.criteria, {name}, http_request)

should_handle(handler, http_request) ==
    CriteriaMet(handler.criteria, DOMAIN handler.criteria, http_request)

(***************************************************************************)
(* Responses.  A response is the record of what it was computed from and   *)
(* how many bytes its dump() has; the static handler's response carries a  *)
(* file and is longer than one send buffer.                                *)
(***************************************************************************)
ShortLength == 1
LongLength == BUFFER_SIZE + 1

\* HttpResponse(400, 'No handler could handle your request, ...').dump()
NoHandlerResponse == [status |-> 400, by |-> 0, of |-> <<>>, length |-> ShortLength]

\* handler.handle_request(): the handler answers the request it finds in its
\* raw_http_request attribute
HandlerResponse(h, raw) ==
    [status |-> 200, by |-> h, of |-> raw,
     length |-> IF request_handlers[h].type = "serveStatic" THEN LongLength ELSE ShortLength]

\* a handler that calls an upstream fails when the upstream does
CallsUpstream(h) == request_handlers[h].type \in {"reverseProxy", "loadBalance"}

(***************************************************************************)
(* State of the thread-per-request server.                                 *)
(***************************************************************************)
VARIABLES
    phase,          \* client -> "new", "queued" (in the listen backlog), "accepted"
    cstate,         \* client -> "open" or "gone" (it closed or dropped the connection)
    asked,          \* client -> requests it has sent
    answered,       \* client -> complete responses its socket has accepted
    inbuf,          \* client -> the unread bytes of its socket: <<>> or <<raw>>
    registered,     \* client sockets registered with client_manager
    closedSocks,    \* client sockets the server has closed
    clients_currently_being_serviced,
    selPc,          \* loop_forever: "select" or "iter" (in the for loop)
    ready_sockets,  \* what select() returned and the for loop has not reached yet
    threads,        \* client socket -> the frames of the threads that run
                    \* handle_client_request on it, oldest first
    handler_raw     \* handler index -> its raw_http_request attribute: <<>> or <<raw>>

bVars == <<phase, cstate, asked, answered, inbuf, registered, closedSocks,
           clients_currently_being_serviced, selPc, ready_sockets, threads, handler_raw>>

\* the state of the other specifications
VARIABLES
    statistics,     \* self.statistics
    passed,         \* statistic -> the sum of the increments of the update_statistics
                    \* calls that have returned
    statThreads,    \* the threads of SpecStats
    server_index,   \* LoadBalancingHandler.server_index
    remote_servers, \* LoadBalancingHandler.remote_servers
    picked,         \* the servers round_robin_strategy has returned, in order
    lbThreads,      \* the threads of SpecLB
    served,         \* requests the single-threaded server has read
    last            \* what on_received_data did with the last of them

statVars == <<statistics, passed, statThreads>>
lbVars == <<server_index, remote_servers, picked, lbThreads>>
seqVars == <<served, last>>

\* the state of the specifications of single functions
VARIABLES
    buffer_size,    \* send_all: its BUFFER_SIZE
    response,       \* send_all: the slice of the response still to send, as the
                    \* positions [lo, hi) it has in the response passed in
    accepted,       \* send_all: the bytes the socket has accepted so far
    sends,          \* send_all: calls of client_socket.send so far
    match_criteria, \* should_handle: self.http_request_match_criteria
    match_request,  \* should_handle: http_request
    match_result,   \* should_handle: <<>> or <<what it returned>>
    static_handler, \* StaticAssetHandler: which class, and its url criteria
    static_url,     \* StaticAssetHandler.handle_request: the requested url
    static_result,  \* StaticAssetHandler.handle_request: <<>> or <<what it did>>
    weighted_servers, \* weighted_strategy: self.remote_servers
    random_num,     \* weighted_strategy: what random.random() returned
    weighted_result, \* weighted_strategy: <<>> or <<what it did>>
    tasks_and_context, \* ManageHandlers: the settings, <<task, context>> in their order
    manage_result,  \* pick_handlers: <<>> or <<what it did>>
    route_handlers, \* on_received_data: self.request_handlers
    route_index,    \* handler -> its server_index (0 for a handler that has none)
    route_routed,   \* handler -> the calls of its handle_request so far
    route_served,   \* on_received_data: the requests it was called with so far
    route_last,     \* on_received_data: what it did with the last of them
    async_handler,  \* the cooperative handler: its class, its request, the reply
                    \* its upstream has for it
    async_frame,    \* the generator of its handle_request: where it stands, the
                    \* server it connects to, the chunks of the request still to send
    async_events,   \* what the generator has done so far, in order
    async_result    \* <<>> or <<how handle_request ended>>

sendVars == <<buffer_size, response, accepted, sends>>
matchVars == <<match_criteria, match_request, match_result>>
staticVars == <<static_handler, static_url, static_result>>
weightedVars == <<weighted_servers, random_num, weighted_result>>
manageVars == <<tasks_and_context, manage_result>>
routeVars == <<route_handlers, route_index, route_routed, route_served, route_last>>
asyncVars == <<async_handler, async_frame, async_events, async_result>>
laterVars == <<manageVars, routeVars, asyncVars>>
fnVars == <<sendVars, matchVars, staticVars, weightedVars, laterVars>>

otherVars == <<statVars, lbVars, seqVars, fnVars>>

StatisticNames == {"bytes_sent", "bytes_recv", "requests_recv", "responses_sent"}

\* the server lists of the load balancer's context
UpstreamLists == {<<"A", "B">>, <<"A", "B", "C">>, <<"A", "B", "C", "D">>}

NoRequest ==
    [outcome |-> "none", raw |-> <<>>, probed |-> <<>>, invoked |-> <<>>,
     responses |-> <<>>, forwarded |-> <<>>, reads |-> <<>>]


vars == <<bVars, otherVars>>

clientVars == <<phase, cstate, asked, answered, inbuf>>
selectorVars == <<selPc, ready_sockets>>

NewThread ==
    [pc |-> "recv", raw |-> <<>>, req |-> <<>>, i |-> 1,
     probed |-> <<>>, invoked |-> <<>>, resp |-> <<>>, off |-> 0]

\* the threads of socket c, by position
ThreadsOn(c) == 1..Len(threads[c])

InitB ==
    /\ phase = [c \in Clients |-> "new"]
    /\ cstate = [c \in Clients |-> "open"]
    /\ asked = [c \in Clients |-> 0]
    /\ answered = [c \in Clients |-> 0]
    /\ inbuf = [c \in Clients |-> <<>>]
    /\ registered = {}
    /\ closedSocks = {}
    /\ clients_currently_being_serviced = {}
    /\ selPc = "select"
    /\ ready_sockets = {}
    /\ threads = [c \in Clients |-> <<>>]
    /\ handler_raw = [h \in 1..NumHandlers |-> <<>>]
    /\ buffer_size = BUFFER_SIZE
    /\ response = [lo |-> 0, hi |-> 0]
    /\ accepted = [upto |-> 0, intact |-> TRUE]
    /\ sends = 0
    /\ match_criteria = <<>>
    /\ match_request = <<>>
    /\ match_result = <<>>
    /\ static_handler = <<>>
    /\ static_url = <<>>
    /\ static_result = <<>>
    /\ weighted_servers = <<>>
    /\ random_num = 0
    /\ weighted_result = <<>>
    /\ statistics = [n \in StatisticNames |-> 0]
    /\ passed = [n \in StatisticNames |-> 0]
    /\ statThreads = <<>>
    /\ server_index = 0
    /\ remote_servers = <<"A", "B", "C">>
    /\ picked = <<>>
    /\ lbThreads = <<>>
    /\ served = 0
    /\ last = NoRequest
    /\ tasks_and_context = <<>>
    /\ manage_result = <<>>
    /\ route_handlers = <<>>
    /\ route_index = <<>>
    /\ route_routed = <<>>
    /\ route_served = 0
    /\ route_last = <<>>
    /\ async_handler = <<>>
    /\ async_frame = <<>>
    /\ async_events = <<>>
    /\ async_result = <<>>

(***************************************************************************)
(* The clients.                                                            *)
(***************************************************************************)
ClientConnect(c) ==
    /\ phase[c] = "new"
    /\ phase' = [phase EXCEPT ![c] = "queued"]
    /\ UNCHANGED <<cstate, asked, answered, inbuf, registered, closedSocks,
                   clients_currently_being_serviced, selectorVars, threads, handler_raw, otherVars>>

\* a client sends its next request once the previous one is answered
ClientSend(c, raw) ==
    /\ phase[c] # "new"
    /\ cstate[c] = "open"
    /\ c \notin closedSocks
    /\ inbuf[c] = <<>>
    /\ asked[c] < MaxRequests
    /\ asked[c] = answered[c]
    /\ inbuf' = [inbuf EXCEPT ![c] = <<raw>>]
    /\ asked' = [asked EXCEPT ![c] = @ + 1]
    /\ UNCHANGED <<phase, cstate, answered, registered, closedSocks,
                   clients_currently_being_serviced, selectorVars, threads, handler_raw, otherVars>>

\* the client closes or drops the connection: once the buffer is drained the
\* server's recv returns b'' or raises ConnectionResetError
ClientClose(c) ==
    /\ phase[c] # "new"
    /\ cstate[c] = "open"
    /\ cstate' = [cstate EXCEPT ![c] = "gone"]
    /\ UNCHANGED <<phase, asked, answered, inbuf, registered, closedSocks,
                   clients_currently_being_serviced, selectorVars, threads, handler_raw, otherVars>>

(***************************************************************************)
(* Server.loop_forever: the selector thread.                               *)
(***************************************************************************)
\* a registered client socket is ready to read when it holds bytes or its
\* peer is gone
Readable(c) ==
    /\ c \in registered
    /\ c \notin closedSocks
    /\ (inbuf[c] # <<>> \/ cstate[c] = "gone")

Select ==
    (IF \E c \in Clients : phase[c] = "queued" THEN {"master"} ELSE {})
        \cup {c \in Clients : Readable(c)}

AfterItem(s) ==
    /\ ready_sockets' = ready_sockets \ {s}
    /\ selPc' = IF ready_sockets \ {s} = {} THEN "select" ELSE "iter"

\* ready_sockets = self.client_manager.select()
S_Select ==
    /\ selPc = "select"
    /\ Select # {}
    /\ ready_sockets' = Select
    /\ selPc' = "iter"
    /\ UNCHANGED <<clientVars, registered, closedSocks,
                   clients_currently_being_serviced, threads, handler_raw, otherVars>>

\* accept_new_client
S_Accept(c) ==
    /\ selPc = "iter"
    /\ "master" \in ready_sockets
    /\ phase[c] = "queued"
    /\ phase' = [phase EXCEPT ![c] = "accepted"]
    /\ registered' = registered \cup {c}
    /\ AfterItem("master")
    /\ UNCHANGED <<cstate, asked, answered, inbuf, closedSocks,
                   clients_currently_being_serviced, threads, handler_raw, otherVars>>

\* the check of the in-service set left out
MayDispatchUnchecked(c) == c \in Clients

\* if client_socket not in self.clients_currently_being_serviced
MayDispatch(c) == c \notin clients_currently_being_serviced

\* the client socket is not being serviced: mark it and start a thread
S_Dispatch(c) ==
    /\ selPc = "iter"
    /\ c \in ready_sockets
    /\ MayDispatch(c)
    /\ Len(threads[c]) < MaxThreads
    /\ clients_currently_being_serviced' = clients_currently_being_serviced \cup {c}
    /\ threads' = [threads EXCEPT ![c] = Append(@, NewThread)]
    /\ AfterItem(c)
    /\ UNCHANGED <<clientVars, registered, closedSocks, handler_raw, otherVars>>

\* the client socket is being serviced: nothing to do
S_Skip(c) ==
    /\ selPc = "iter"
    /\ c \in ready_sockets
    /\ ~MayDispatch(c)
    /\ AfterItem(c)
    /\ UNCHANGED <<clientVars, registered, closedSocks,
                   clients_currently_being_serviced, threads, handler_raw, otherVars>>

(***************************************************************************)
(* Server.handle_client_request: one thread per dispatched client socket.  *)
(* A thread that ends, by returning or by an exception nothing catches,    *)
(* leaves the table.                                                       *)
(***************************************************************************)
Frame(c, k, frame) == threads' = [threads EXCEPT ![c][k] = frame]

Ends(c, k) ==
    threads' = [threads EXCEPT ![c] = SubSeq(@, 1, k - 1) \o SubSeq(@, k + 1, Len(@))]

At(c, k, pc) == k \in ThreadsOn(c) /\ threads[c][k].pc = pc

\* close_client_connection: unregister, then close
close_client_connection(c) ==
    /\ registered' = registered \ {c}
    /\ closedSocks' = closedSocks \cup {c}

\* raw_request = client_socket.recv(1024) returns the bytes that arrived
W_RecvData(c, k) ==
    /\ At(c, k, "recv")
    /\ c \notin closedSocks
    /\ inbuf[c] # <<>>
    /\ inbuf' = [inbuf EXCEPT ![c] = <<>>]
    /\ Frame(c, k, [threads[c][k] EXCEPT !.pc = "parse", !.raw = inbuf[c]])
    /\ UNCHANGED <<phase, cstate, asked, answered, registered, closedSocks,
                   clients_currently_being_serviced, selectorVars, handler_raw, otherVars>>

\* recv returns b'' (the client closed its side), or raises
\* ConnectionResetError, which is caught and leaves raw_request None
W_RecvEmpty(c, k) ==
    /\ At(c, k, "recv")
    /\ c \notin closedSocks
    /\ inbuf[c] = <<>>
    /\ cstate[c] = "gone"
    /\ Frame(c, k, [threads[c][k] EXCEPT !.pc = "close"])
    /\ UNCHANGED <<clientVars, registered, closedSocks,
                   clients_currently_being_serviced, selectorVars, handler_raw, otherVars>>

\* recv raises what handle_client_request does not catch: BlockingIOError
\* (nothing to read on the non-blocking socket) or OSError (the socket is
\* closed); the thread ends there
W_RecvRaises(c, k) ==
    /\ At(c, k, "recv")
    /\ \/ c \in closedSocks
       \/ inbuf[c] = <<>> /\ cstate[c] = "open"
    /\ Ends(c, k)
    /\ UNCHANGED <<clientVars, registered, closedSocks,
                   clients_currently_being_serviced, selectorVars, handler_raw, otherVars>>

\* if not raw_request: self.close_client_connection(client_socket)
W_CloseOnEmpty(c, k) ==
    /\ At(c, k, "close")
    /\ close_client_connection(c)
    /\ Ends(c, k)
    /\ UNCHANGED <<clientVars, clients_currently_being_serviced, selectorVars,
                   handler_raw, otherVars>>

\* http_request = HttpRequest.from_bytes(raw_request)
W_Parse(c, k) ==
    /\ At(c, k, "parse")
    /\ IF ParseFails(threads[c][k].raw[1])
       THEN Ends(c, k)
       ELSE Frame(c, k, [threads[c][k] EXCEPT
                           !.pc = "probe",
                           !.req = <<parse_http_request(threads[c][k].raw[1])>>])
    /\ UNCHANGED <<clientVars, registered, closedSocks,
                   clients_currently_being_serviced, selectorVars, handler_raw, otherVars>>

\* for handler in self.request_handlers: if handler.should_handle(http_request)
W_Probe(c, k) ==
    /\ At(c, k, "probe")
    /\ LET i == threads[c][k].i
           matches == should_handle(request_handlers[i], threads[c][k].req[1])
       IN Frame(c, k, [threads[c][k] EXCEPT
                         !.probed = Append(@, i),
                         !.pc = IF matches THEN "set_raw"
                                ELSE IF i = NumHandlers THEN "no_handler" ELSE "probe",
                         !.i = IF matches \/ i = NumHandlers THEN i ELSE i + 1])
    /\ UNCHANGED <<clientVars, registered, closedSocks,
                   clients_currently_being_serviced, selectorVars, handler_raw, otherVars>>

\* handler.raw_http_request = raw_request
W_SetRaw(c, k) ==
    /\ At(c, k, "set_raw")
    /\ handler_raw' = [handler_raw EXCEPT ![threads[c][k].i] = threads[c][k].raw]
    /\ Frame(c, k, [threads[c][k] EXCEPT !.pc = "handle"])
    /\ UNCHANGED <<clientVars, registered, closedSocks,
                   clients_currently_being_serviced, selectorVars, otherVars>>

\* the for loop without its break: after a handler has answered, the loop
\* goes on to the next one
W_HandleNoBreak(c, k) ==
    /\ At(c, k, "handle")
    /\ LET h == threads[c][k].i
       IN Frame(c, k, [threads[c][k] EXCEPT
                         !.pc = IF h < NumHandlers THEN "probe" ELSE "send",
                         !.i = IF h < NumHandlers THEN h + 1 ELSE h,
                         !.invoked = Append(@, h),
                         !.resp = <<HandlerResponse(h, handler_raw[h][1])>>])
    /\ UNCHANGED <<clientVars, registered, closedSocks,
                   clients_currently_being_serviced, selectorVars, handler_raw, otherVars>>

\* on_compatible_handler: http_response = handler.handle_request()
W_Handle(c, k) ==
    /\ At(c, k, "handle")
    /\ LET h == threads[c][k].i
       IN Frame(c, k, [threads[c][k] EXCEPT
                         !.pc = "send",
                         !.invoked = Append(@, h),
                         !.resp = <<HandlerResponse(h, handler_raw[h][1])>>])
    /\ UNCHANGED <<clientVars, registered, closedSocks,
                   clients_currently_being_serviced, selectorVars, handler_raw, otherVars>>

\* handle_request raises (the upstream refuses, times out): nothing catches
\* it and the thread ends
W_HandleRaises(c, k) ==
    /\ At(c, k, "handle")
    /\ CallsUpstream(threads[c][k].i)
    /\ Ends(c, k)
    /\ UNCHANGED <<clientVars, registered, closedSocks,
                   clients_currently_being_serviced, selectorVars, handler_raw, otherVars>>

\* on_no_compatible_handler (the for loop's else)
W_NoHandler(c, k) ==
    /\ At(c, k, "no_handler")
    /\ Frame(c, k, [threads[c][k] EXCEPT !.pc = "send", !.resp = <<NoHandlerResponse>>])
    /\ UNCHANGED <<clientVars, registered, closedSocks,
                   clients_currently_being_serviced, selectorVars, handler_raw, otherVars>>

\* what client_socket.send(chunk) may return
SendResults(chunk) == {n \in {chunk - 1, chunk} : n >= 1}

Min(a, b) == IF a <= b THEN a ELSE b

\* send_all, one turn of the loop in which send returns some n
W_Send(c, k) ==
    /\ At(c, k, "send")
    /\ c \notin closedSocks
    /\ \E n \in SendResults(Min(threads[c][k].resp[1].length - threads[c][k].off,
                                BUFFER_SIZE)) :
         LET off == threads[c][k].off + (IF n < BUFFER_SIZE THEN n ELSE BUFFER_SIZE)
             sent == off = threads[c][k].resp[1].length
         IN /\ Frame(c, k, [threads[c][k] EXCEPT
                              !.off = off,
                              !.pc = IF sent THEN "unmark" ELSE "send"])
            /\ answered' = [answered EXCEPT ![c] = IF sent THEN @ + 1 ELSE @]
    /\ UNCHANGED <<phase, cstate, asked, inbuf, registered, closedSocks,
                   clients_currently_being_serviced, selectorVars, handler_raw, otherVars>>

\* send_all, send raises BrokenPipeError (the client is gone): close and
\* leave the loop
W_SendBrokenPipe(c, k) ==
    /\ At(c, k, "send")
    /\ c \notin closedSocks
    /\ cstate[c] = "gone"
    /\ close_client_connection(c)
    /\ Frame(c, k, [threads[c][k] EXCEPT !.pc = "unmark"])
    /\ UNCHANGED <<clientVars, clients_currently_being_serviced, selectorVars,
                   handler_raw, otherVars>>

\* send_all, send raises BlockingIOError (the socket's buffer still holds
\* what was sent before): close and leave the loop
W_SendWouldBlock(c, k) ==
    /\ At(c, k, "send")
    /\ c \notin closedSocks
    /\ cstate[c] = "open"
    /\ threads[c][k].off > 0
    /\ close_client_connection(c)
    /\ Frame(c, k, [threads[c][k] EXCEPT !.pc = "unmark"])
    /\ UNCHANGED <<clientVars, clients_currently_being_serviced, selectorVars,
                   handler_raw, otherVars>>

\* a worker that closes the connection when it is done with the request
W_UnmarkAndClose(c, k) ==
    /\ At(c, k, "unmark")
    /\ clients_currently_being_serviced' = clients_currently_being_serviced \ {c}
    /\ close_client_connection(c)
    /\ Ends(c, k)
    /\ UNCHANGED <<clientVars, selectorVars, handler_raw, otherVars>>

\* self.clients_currently_being_serviced.remove(client_socket)
W_Unmark(c, k) ==
    /\ At(c, k, "unmark")
    /\ clients_currently_being_serviced' = clients_currently_being_serviced \ {c}
    /\ Ends(c, k)
    /\ UNCHANGED <<clientVars, registered, closedSocks, selectorVars, handler_raw, otherVars>>

Positions == 1..MaxThreads

NextB ==
    \/ \E c \in Clients : ClientConnect(c)
    \/ \E c \in Clients : \E raw \in RawRequestsOf(c) : ClientSend(c, raw)
    \/ \E c \in Clients : ClientClose(c)
    \/ S_Select
    \/ \E c \in Clients : S_Accept(c)
    \/ \E c \in Clients : S_Dispatch(c)
    \/ \E c \in Clients : S_Skip(c)
    \/ \E c \in Clients, k \in Positions : W_RecvData(c, k)
    \/ \E c \in Clients, k \in Positions : W_RecvEmpty(c, k)
    \/ \E c \in Clients, k \in Positions : W_RecvRaises(c, k)
    \/ \E c \in Clients, k \in Positions : W_CloseOnEmpty(c, k)
    \/ \E c \in Clients, k \in Positions : W_Parse(c, k)
    \/ \E c \in Clients, k \in Positions : W_Probe(c, k)
    \/ \E c \in Clients, k \in Positions : W_SetRaw(c, k)
    \/ \E c \in Clients, k \in Positions : W_Handle(c, k)
    \/ \E c \in Clients, k \in Positions : W_HandleRaises(c, k)
    \/ \E c \in Clients, k \in Positions : W_NoHandler(c, k)
    \/ \E c \in Clients, k \in Positions : W_Send(c, k)
    \/ \E c \in Clients, k \in Positions : W_SendBrokenPipe(c, k)
    \/ \E c \in Clients, k \in Positions : W_SendWouldBlock(c, k)
    \/ \E c \in Clients, k \in Positions : W_Unmark(c, k)

SpecB == InitB /\ [][NextB]_vars

\* the selector thread and every started thread keep running; nothing
\* obliges a client to act
SelectorNext ==
    \/ S_Select
    \/ \E c \in Clients : S_Accept(c) \/ S_Dispatch(c) \/ S_Skip(c)

ThreadNext(c, k) ==
    \/ W_RecvData(c, k) \/ W_RecvEmpty(c, k) \/ W_RecvRaises(c, k)
    \/ W_CloseOnEmpty(c, k) \/ W_Parse(c, k) \/ W_Probe(c, k)
    \/ W_SetRaw(c, k) \/ W_Handle(c, k) \/ W_HandleRaises(c, k)
    \/ W_NoHandler(c, k) \/ W_Send(c, k) \/ W_SendBrokenPipe(c, k)
    \/ W_SendWouldBlock(c, k) \/ W_Unmark(c, k)

FairSpecB ==
    /\ InitB
    /\ [][NextB]_vars
    /\ WF_vars(SelectorNext)
    /\ \A c \in Clients : \A k \in Positions : WF_vars(ThreadNext(c, k))

(***************************************************************************)
(* SpecStats: Server.update_statistics called by several threads of        *)
(* handle_client_request.  Each thread has read and parsed a request; it   *)
(* calls update_statistics(responses_sent=1, requests_recv=1) and, when no *)
(* handler matches its request, update_statistics(bytes_sent=...) in       *)
(* on_no_compatible_handler.                                               *)
(***************************************************************************)
StatThreadIds == 1..NumStatThreads

\* the keyword arguments of the calls a thread makes, in order
StatCalls(matched) ==
    <<<<"responses_sent", 1>>, <<"requests_recv", 1>>>>
        \o (IF matched THEN <<>> ELSE <<<<"bytes_sent", NoHandlerResponse.length>>>>)

InitStats ==
    /\ statistics = [n \in StatisticNames |-> 0]
    /\ passed = [n \in StatisticNames |-> 0]
    /\ statThreads \in [StatThreadIds ->
          {[pc |-> "load", kwargs |-> StatCalls(m), loaded |-> 0] : m \in BOOLEAN}]
    /\ server_index = 0
    /\ remote_servers = <<"A", "B", "C">>
    /\ picked = <<>>
    /\ lbThreads = <<>>
    /\ served = 0
    /\ last = NoRequest
    /\ tasks_and_context = <<>>
    /\ manage_result = <<>>
    /\ route_handlers = <<>>
    /\ route_index = <<>>
    /\ route_routed = <<>>
    /\ route_served = 0
    /\ route_last = <<>>
    /\ async_handler = <<>>
    /\ async_frame = <<>>
    /\ async_events = <<>>
    /\ async_result = <<>>
    /\ phase = [c \in Clients |-> "new"]
    /\ cstate = [c \in Clients |-> "open"]
    /\ asked = [c \in Clients |-> 0]
    /\ answered = [c \in Clients |-> 0]
    /\ inbuf = [c \in Clients |-> <<>>]
    /\ registered = {}
    /\ closedSocks = {}
    /\ clients_currently_being_serviced = {}
    /\ selPc = "select"
    /\ ready_sockets = {}
    /\ threads = [c \in Clients |-> <<>>]
    /\ handler_raw = [h \in 1..NumHandlers |-> <<>>]
    /\ buffer_size = BUFFER_SIZE
    /\ response = [lo |-> 0, hi |-> 0]
    /\ accepted = [upto |-> 0, intact |-> TRUE]
    /\ sends = 0
    /\ match_criteria = <<>>
    /\ match_request = <<>>
    /\ match_result = <<>>
    /\ static_handler = <<>>
    /\ static_url = <<>>
    /\ static_result = <<>>
    /\ weighted_servers = <<>>
    /\ random_num = 0
    /\ weighted_result = <<>>

\* self.statistics[statistic_name] += statistic_value reads the value ...
ST_Load(t) ==
    /\ statThreads[t].pc = "load"
    /\ statThreads' = [statThreads EXCEPT
          ![t].pc = "store",
          ![t].loaded = IF statThreads[t].kwargs[1][1] \in DOMAIN statistics
                        THEN statistics[statThreads[t].kwargs[1][1]]
                        ELSE 0]
    /\ UNCHANGED <<statistics, passed, lbVars, seqVars, bVars, fnVars>>

\* ... and writes the sum back
ST_Store(t) ==
    /\ statThreads[t].pc = "store"
    /\ LET name == statThreads[t].kwargs[1][1]
           value == statThreads[t].kwargs[1][2]
           rest == Tail(statThreads[t].kwargs)
       IN /\ statistics' = [statistics EXCEPT ![name] = statThreads[t].loaded + value]
          /\ passed' = [passed EXCEPT ![name] = @ + value]
          /\ statThreads' = [statThreads EXCEPT
                ![t].kwargs = rest,
                ![t].loaded = 0,
                ![t].pc = IF rest = <<>> THEN "done" ELSE "load"]
    /\ UNCHANGED <<lbVars, seqVars, bVars, fnVars>>

NextStats ==
    \/ \E t \in StatThreadIds : ST_Load(t)
    \/ \E t \in StatThreadIds : ST_Store(t)

SpecStats == InitStats /\ [][NextStats]_vars

(***************************************************************************)
(* SpecLB: LoadBalancingHandler.handle_request called by several threads   *)
(* on the one handler instance, with strategy round_robin.                 *)
(***************************************************************************)
LBThreadIds == 1..NumLBThreads

InitLB ==
    /\ server_index = 0
    /\ remote_servers \in UpstreamLists
    /\ picked = <<>>
    /\ lbThreads = [t \in LBThreadIds |-> [pc |-> "pick", loaded |-> 0, picks |-> 0]]
    /\ statistics = [n \in StatisticNames |-> 0]
    /\ passed = [n \in StatisticNames |-> 0]
    /\ statThreads = <<>>
    /\ served = 0
    /\ last = NoRequest
    /\ tasks_and_context = <<>>
    /\ manage_result = <<>>
    /\ route_handlers = <<>>
    /\ route_index = <<>>
    /\ route_routed = <<>>
    /\ route_served = 0
    /\ route_last = <<>>
    /\ async_handler = <<>>
    /\ async_frame = <<>>
    /\ async_events = <<>>
    /\ async_result = <<>>
    /\ phase = [c \in Clients |-> "new"]
    /\ cstate = [c \in Clients |-> "open"]
    /\ asked = [c \in Clients |-> 0]
    /\ answered = [c \in Clients |-> 0]
    /\ inbuf = [c \in Clients |-> <<>>]
    /\ registered = {}
    /\ closedSocks = {}
    /\ clients_currently_being_serviced = {}
    /\ selPc = "select"
    /\ ready_sockets = {}
    /\ threads = [c \in Clients |-> <<>>]
    /\ handler_raw = [h \in 1..NumHandlers |-> <<>>]
    /\ buffer_size = BUFFER_SIZE
    /\ response = [lo |-> 0, hi |-> 0]
    /\ accepted = [upto |-> 0, intact |-> TRUE]
    /\ sends = 0
    /\ match_criteria = <<>>
    /\ match_request = <<>>
    /\ match_result = <<>>
    /\ static_handler = <<>>
    /\ static_url = <<>>
    /\ static_result = <<>>
    /\ weighted_servers = <<>>
    /\ random_num = 0
    /\ weighted_result = <<>>

\* self.remote_servers[self.server_index % len(self.remote_servers)]
ServerAt(index) == remote_servers[(index % Len(remote_servers)) + 1]

\* round_robin_strategy, server_to_send_to = ...
LB_Pick(t) ==
    /\ lbThreads[t].pc = "pick"
    /\ lbThreads[t].picks < MaxPicksPerThread
    /\ picked' = Append(picked, ServerAt(server_index))
    /\ lbThreads' = [lbThreads EXCEPT ![t].pc = "load"]
    /\ UNCHANGED <<server_index, remote_servers, statVars, seqVars, bVars, fnVars>>

\* self.server_index += 1 reads the index ...
LB_Load(t) ==
    /\ lbThreads[t].pc = "load"
    /\ lbThreads' = [lbThreads EXCEPT ![t].pc = "store", ![t].loaded = server_index]
    /\ UNCHANGED <<server_index, remote_servers, picked, statVars, seqVars, bVars, fnVars>>

\* ... and writes it back, one higher; the strategy returns
LB_Store(t) ==
    /\ lbThreads[t].pc = "store"
    /\ server_index' = lbThreads[t].loaded + 1
    /\ lbThreads' = [lbThreads EXCEPT ![t].pc = "pick", ![t].loaded = 0,
                                      ![t].picks = @ + 1]
    /\ UNCHANGED <<remote_servers, picked, statVars, seqVars, bVars, fnVars>>

NextLB ==
    \/ \E t \in LBThreadIds : LB_Pick(t)
    \/ \E t \in LBThreadIds : LB_Load(t)
    \/ \E t \in LBThreadIds : LB_Store(t)

SpecLB == InitLB /\ [][NextLB]_vars

(***************************************************************************)
(* SpecSeq: the single-threaded server.  BaseServer.handle_client_request  *)
(* reads one request and on_received_data takes it through the handlers,   *)
(* one request after the other.                                            *)
(***************************************************************************)
UrlStaticB == <<"/", "s", "/", "b">>

\* what the single-threaded server's clients send: the requests of a client
\* of SpecB, a static file that does not exist, and a request line of one word
SeqRequests ==
    RawRequestsOf("c1")
        \cup {RawRequest("GET", UrlStaticB, "c1"), << <<"GET">>, <<>>, <<"">> >>}

\* the parts of a path between its slashes: what is left of the text, and
\* the part begun
RECURSIVE PartsOf(_, _)
PartsOf(text, part) ==
    IF text = <<>> THEN (IF part = <<>> THEN <<>> ELSE <<part>>)
    ELSE IF Head(text) = "/"
         THEN (IF part = <<>> THEN <<>> ELSE <<part>>) \o PartsOf(Tail(text), <<>>)
         ELSE PartsOf(Tail(text), Append(part, Head(text)))

\* pathlib.Path(text): the root and the parts; empty parts and '.' parts
\* are dropped, '..' parts are kept
Path(text) ==
    [anchor |-> IF text # <<>> /\ Head(text) = "/" THEN "/" ELSE "",
     parts |-> SelectSeq(PartsOf(text, <<>>), LAMBDA part : part # <<".">>)]

\* context['staticRoot'], and the directories and files under it when the
\* handler is constructed
static_directory_path == <<"/", "w", "/">>
directories_found == {static_directory_path \o <<"d">>}
files_found == {static_directory_path \o <<"a">>, static_directory_path \o <<"d", "/", "f">>}

\* set(pathlib.Path(self.static_directory_path).glob('**/*'))
all_files == {Path(found) : found \in files_found \cup directories_found}

\* for required_beginning in ...: if requested_url.startswith(required_beginning):
\*     return requested_url[len(required_beginning):]
RECURSIVE RemoveFirstPrefix(_, _)
RemoveFirstPrefix(prefixes, requested_url) ==
    IF StartsWith(requested_url, Head(prefixes))
    THEN SubSeq(requested_url, Len(Head(prefixes)) + 1, Len(requested_url))
    ELSE RemoveFirstPrefix(Tail(prefixes), requested_url)

\* a loop that goes on to the last listed prefix the url starts with
RemoveLastListedPrefix(handler, http_request) ==
    LET prefixes == handler.criteria["url"]
        k == CHOOSE j \in 1..Len(prefixes) :
                /\ StartsWith(http_request.requested_url, prefixes[j])
                /\ \A i \in (j + 1)..Len(prefixes) :
                      ~StartsWith(http_request.requested_url, prefixes[i])
    IN SubSeq(http_request.requested_url, Len(prefixes[k]) + 1,
              Len(http_request.requested_url))

\* StaticAssetHandler.remove_url_prefix (the same loop in handlers.py), for a
\* url that starts with one of the prefixes
remove_url_prefix(handler, http_request) ==
    RemoveFirstPrefix(handler.criteria["url"], http_request.requested_url)

\* what handle_request did: whether it returned, the status of the response,
\* the path it looked up, the files it read
StaticRaised == [outcome |-> "raised", status |-> 0, path |-> <<>>, reads |-> {}]

\* StaticAssetHandler.handle_request of handlers/http_handlers.py
static_handle_request(handler, http_request) ==
    IF ~StartsWithAny(http_request.requested_url, handler.criteria["url"])
    THEN StaticRaised
    ELSE LET absolute_path == static_directory_path \o remove_url_prefix(handler, http_request)
         IN IF Path(absolute_path) \in all_files
            THEN IF Path(absolute_path) \in {Path(d) : d \in directories_found}
                 THEN [StaticRaised EXCEPT !.path = absolute_path]
                 ELSE [outcome |-> "returned", status |-> 200, path |-> absolute_path,
                       reads |-> {Path(absolute_path)}]
            ELSE [outcome |-> "returned", status |-> 404, path |-> absolute_path,
                  reads |-> {}]

\* StaticAssetHandler.handle_request of handlers.py: create_http_response
\* writes 'HTTP/1.1 200 OK' before the file and before the error message
old_static_handle_request(handler, http_request) ==
    LET request_matches_pattern ==
            StartsWithAny(http_request.requested_url, handler.criteria["url"])
    IN IF ~request_matches_pattern
       THEN StaticRaised
       ELSE LET absolute_path ==
                    static_directory_path \o remove_url_prefix(handler, http_request)
            IN IF Path(absolute_path) \in all_files /\ request_matches_pattern
               THEN IF Path(absolute_path) \in {Path(d) : d \in directories_found}
                    THEN [StaticRaised EXCEPT !.path = absolute_path]
                    ELSE [outcome |-> "returned", status |-> 200, path |-> absolute_path,
                          reads |-> {Path(absolute_path)}]
               ELSE [outcome |-> "returned", status |-> 200, path |-> absolute_path,
                     reads |-> {}]

\* the increment of round_robin_strategy done before the server is read
RoundRobinIncrementFirst(index) == [server |-> ServerAt(index + 1), index |-> index + 1]

\* LoadBalancingHandler.round_robin_strategy, run by one thread: the server
\* it returns and the index it leaves
round_robin_strategy(index) == [server |-> ServerAt(index), index |-> index + 1]

\* the for loop of on_received_data from handler i on: the handlers it
\* probes and the one it stops at, 0 if it runs to its else
RECURSIVE ProbeFrom(_, _)
ProbeFrom(http_request, i) ==
    IF i > NumHandlers THEN [probed |-> <<>>, match |-> 0]
    ELSE IF should_handle(request_handlers[i], http_request)
         THEN [probed |-> <<i>>, match |-> i]
         ELSE LET rest == ProbeFrom(http_request, i + 1)
              IN [probed |-> <<i>> \o rest.probed, match |-> rest.match]

\* a for loop whose else falls back on the last handler of the list
ProbeFromWithDefault(http_request, i) ==
    LET found == ProbeFrom(http_request, i)
    IN IF found.match = 0 THEN [found EXCEPT !.match = NumHandlers] ELSE found

\* for handler in self.request_handlers: if handler.should_handle(...)
Probe(http_request, i) == ProbeFrom(http_request, i)

InitSeq ==
    /\ served = 0
    /\ last = NoRequest
    /\ tasks_and_context = <<>>
    /\ manage_result = <<>>
    /\ route_handlers = <<>>
    /\ route_index = <<>>
    /\ route_routed = <<>>
    /\ route_served = 0
    /\ route_last = <<>>
    /\ async_handler = <<>>
    /\ async_frame = <<>>
    /\ async_events = <<>>
    /\ async_result = <<>>
    /\ server_index = 0
    /\ remote_servers \in UpstreamLists
    /\ picked = <<>>
    /\ statistics = [n \in StatisticNames |-> 0]
    /\ passed = [n \in StatisticNames |-> 0]
    /\ statThreads = <<>>
    /\ lbThreads = <<>>
    /\ phase = [c \in Clients |-> "new"]
    /\ cstate = [c \in Clients |-> "open"]
    /\ asked = [c \in Clients |-> 0]
    /\ answered = [c \in Clients |-> 0]
    /\ inbuf = [c \in Clients |-> <<>>]
    /\ registered = {}
    /\ closedSocks = {}
    /\ clients_currently_being_serviced = {}
    /\ selPc = "select"
    /\ ready_sockets = {}
    /\ threads = [c \in Clients |-> <<>>]
    /\ handler_raw = [h \in 1..NumHandlers |-> <<>>]
    /\ buffer_size = BUFFER_SIZE
    /\ response = [lo |-> 0, hi |-> 0]
    /\ accepted = [upto |-> 0, intact |-> TRUE]
    /\ sends = 0
    /\ match_criteria = <<>>
    /\ match_request = <<>>
    /\ match_result = <<>>
    /\ static_handler = <<>>
    /\ static_url = <<>>
    /\ static_result = <<>>
    /\ weighted_servers = <<>>
    /\ random_num = 0
    /\ weighted_result = <<>>

SeqIdle == <<passed, statThreads, lbThreads, remote_servers, phase, cstate, asked,
             answered, inbuf, registered, closedSocks, clients_currently_being_serviced,
             selPc, ready_sockets, threads, fnVars>>

\* update_statistics(responses_sent=1, requests_recv=1), one thread
CountRequest ==
    statistics' = [statistics EXCEPT !["responses_sent"] = @ + 1,
                                     !["requests_recv"] = @ + 1]

\* on_received_data: parse_http_request raises
Seq_Malformed(raw) ==
    /\ served < MaxServed
    /\ ParseFails(raw)
    /\ served' = served + 1
    /\ last' = [NoRequest EXCEPT !.outcome = "raised", !.raw = raw]
    /\ UNCHANGED <<statistics, server_index, picked, handler_raw, SeqIdle>>

\* on_received_data: no handler should handle the request
Seq_NoHandler(raw) ==
    /\ served < MaxServed
    /\ ~ParseFails(raw)
    /\ LET found == Probe(parse_http_request(raw), 1) IN
       /\ found.match = 0
       /\ last' = [NoRequest EXCEPT !.outcome = "responded", !.raw = raw,
                                    !.probed = found.probed,
                                    !.responses = <<NoHandlerResponse>>]
    /\ served' = served + 1
    /\ CountRequest
    /\ UNCHANGED <<server_index, picked, handler_raw, SeqIdle>>

\* on_received_data: the static handler answers.
\* StaticAssetHandler.handle_request reads the file when the path is one of
\* all_files and answers 404 when it is not
Seq_Static(raw) ==
    /\ served < MaxServed
    /\ ~ParseFails(raw)
    /\ LET found == Probe(parse_http_request(raw), 1)
           h == found.match
       IN
       /\ h # 0
       /\ request_handlers[h].type = "serveStatic"
       /\ handler_raw' = [handler_raw EXCEPT ![h] = <<raw>>]
       /\ LET http_request == parse_http_request(raw)
              absolute_path == static_directory_path
                                 \o remove_url_prefix(request_handlers[h], http_request)
          IN last' = [NoRequest EXCEPT
                        !.outcome = "responded", !.raw = raw,
                        !.probed = found.probed, !.invoked = <<h>>,
                        !.reads = IF Path(absolute_path) \in all_files
                                  THEN <<absolute_path>> ELSE <<>>,
                        !.responses =
                           IF Path(absolute_path) \in all_files
                           THEN <<HandlerResponse(h, raw)>>
                           ELSE <<[status |-> 404, by |-> h, of |-> raw,
                                   length |-> ShortLength]>>]
    /\ served' = served + 1
    /\ CountRequest
    /\ UNCHANGED <<server_index, picked, SeqIdle>>

\* on_received_data: the load balancer answers.
\* LoadBalancingHandler.handle_request picks a server, connect_and_send
\* forwards the raw request to it and returns its reply, or raises when the
\* server cannot be reached
Seq_LoadBalance(raw, reached) ==
    /\ served < MaxServed
    /\ ~ParseFails(raw)
    /\ LET found == Probe(parse_http_request(raw), 1)
           h == found.match
       IN
       /\ h # 0
       /\ request_handlers[h].type = "loadBalance"
       /\ handler_raw' = [handler_raw EXCEPT ![h] = <<raw>>]
       /\ LET pick == round_robin_strategy(server_index) IN
          /\ server_index' = pick.index
          /\ picked' = Append(picked, pick.server)
          /\ last' = [NoRequest EXCEPT
                        !.outcome = IF reached THEN "responded" ELSE "raised",
                        !.raw = raw,
                        !.probed = found.probed, !.invoked = <<h>>,
                        !.forwarded = IF reached THEN <<<<pick.server, raw>>>> ELSE <<>>,
                        !.responses = IF reached THEN <<HandlerResponse(h, raw)>>
                                      ELSE <<>>]
    /\ served' = served + 1
    /\ CountRequest
    /\ UNCHANGED SeqIdle

NextSeq ==
    \/ \E raw \in SeqRequests : Seq_Malformed(raw)
    \/ \E raw \in SeqRequests : Seq_NoHandler(raw)
    \/ \E raw \in SeqRequests : Seq_Static(raw)
    \/ \E raw \in SeqRequests, reached \in BOOLEAN : Seq_LoadBalance(raw, reached)

SpecSeq == InitSeq /\ [][NextSeq]_vars

(***************************************************************************)
(* SpecA: myhttpserver.py, the server of one thread.  loop_forever calls   *)
(* handle_client_request itself for every socket select() reports, so an   *)
(* exception handle_client_request does not catch leaves loop_forever; main *)
(* catches KeyboardInterrupt only.  The sockets are registered for         *)
(* EVENT_READ | EVENT_WRITE and select() reports a socket with the events  *)
(* that are ready on it, <<socket, "rw">> or <<socket, "w">>.  selPc is    *)
(* "dead" once an exception has left loop_forever.                         *)
(***************************************************************************)
\* BUFFER_SIZE of this server's send_all
OLD_BUFFER_SIZE == 1024

\* ManageHandlers.pick_handlers: task_to_handler knows serveStatic only
static_handlers == SelectSeq(request_handlers, LAMBDA h : h.type = "serveStatic")

\* what the clients of this server send: their requests, and one whose
\* request line has a single word
RawRequestsOfA(c) == RawRequestsOf(c) \cup {<< <<"GET">>, <<>>, <<c>> >>}

\* len() of a line: its fields and the separators between them
RECURSIVE LineLength(_)
LineLength(line) ==
    IF line = <<>> THEN 0
    ELSE Len(Head(line)) + (IF Len(line) > 1 THEN 1 ELSE 0) + LineLength(Tail(line))

\* len(recv_data): the lines and the '\r\n' between them
RECURSIVE RawLength(_)
RawLength(raw) ==
    IF raw = <<>> THEN 0
    ELSE LineLength(Head(raw)) + (IF Len(raw) > 1 THEN 2 ELSE 0) + RawLength(Tail(raw))

\* the for loop of handle_client_request: the first handler that should
\* handle the request, 0 when the loop runs out
FirstHandlerA(http_request) ==
    IF \E h \in 1..Len(static_handlers) : should_handle(static_handlers[h], http_request)
    THEN CHOOSE h \in 1..Len(static_handlers) :
            /\ should_handle(static_handlers[h], http_request)
            /\ \A g \in 1..(h - 1) : ~should_handle(static_handlers[g], http_request)
    ELSE 0

\* the response handle_client_request passes to send_all
ResponseA(raw) ==
    IF FirstHandlerA(parse_http_request(raw)) = 0 THEN NoHandlerResponse
    ELSE HandlerResponse(FirstHandlerA(parse_http_request(raw)), raw)

\* the statistics after the update_statistics calls of one request
StatisticsAfterA(raw) ==
    [statistics EXCEPT
        !["responses_sent"] = @ + 1,
        !["requests_recv"] = @ + 1,
        !["bytes_recv"] = @ + (IF FirstHandlerA(parse_http_request(raw)) = 0
                               THEN 0 ELSE RawLength(raw)),
        !["bytes_sent"] = @ + ResponseA(raw).length]

InitA ==
    /\ phase = [c \in Clients |-> "new"]
    /\ cstate = [c \in Clients |-> "open"]
    /\ asked = [c \in Clients |-> 0]
    /\ answered = [c \in Clients |-> 0]
    /\ inbuf = [c \in Clients |-> <<>>]
    /\ registered = {}
    /\ closedSocks = {}
    /\ clients_currently_being_serviced = {}
    /\ selPc = "select"
    /\ ready_sockets = {}
    /\ threads = [c \in Clients |-> <<>>]
    /\ handler_raw = [h \in 1..NumHandlers |-> <<>>]
    /\ statistics = [n \in StatisticNames |-> 0]
    /\ passed = [n \in StatisticNames |-> 0]
    /\ statThreads = <<>>
    /\ server_index = 0
    /\ remote_servers = <<"A", "B", "C">>
    /\ picked = <<>>
    /\ lbThreads = <<>>
    /\ served = 0
    /\ last = NoRequest
    /\ tasks_and_context = <<>>
    /\ manage_result = <<>>
    /\ route_handlers = <<>>
    /\ route_index = <<>>
    /\ route_routed = <<>>
    /\ route_served = 0
    /\ route_last = <<>>
    /\ async_handler = <<>>
    /\ async_frame = <<>>
    /\ async_events = <<>>
    /\ async_result = <<>>
    /\ buffer_size = OLD_BUFFER_SIZE
    /\ response = [lo |-> 0, hi |-> 0]
    /\ accepted = [upto |-> 0, intact |-> TRUE]
    /\ sends = 0
    /\ match_criteria = <<>>
    /\ match_request = <<>>
    /\ match_result = <<>>
    /\ static_handler = <<>>
    /\ static_url = <<>>
    /\ static_result = <<>>
    /\ weighted_servers = <<>>
    /\ random_num = 0
    /\ weighted_result = <<>>

idleA == <<clients_currently_being_serviced, threads, passed, statThreads, lbVars,
           seqVars, fnVars>>

SelectA ==
    (IF \E c \in Clients : phase[c] = "queued" THEN {<<"master", "r">>} ELSE {})
        \cup {<<c, IF Readable(c) THEN "rw" ELSE "w">> : c \in registered}

\* ready_sockets = self.client_manager.select()
A_Select ==
    /\ selPc = "select"
    /\ SelectA # {}
    /\ ready_sockets' = SelectA
    /\ selPc' = "iter"
    /\ UNCHANGED <<clientVars, registered, closedSocks, handler_raw, statistics, idleA>>

\* accept_new_client
A_Accept(c) ==
    /\ selPc = "iter"
    /\ <<"master", "r">> \in ready_sockets
    /\ phase[c] = "queued"
    /\ phase' = [phase EXCEPT ![c] = "accepted"]
    /\ registered' = registered \cup {c}
    /\ AfterItem(<<"master", "r">>)
    /\ UNCHANGED <<cstate, asked, answered, inbuf, closedSocks, handler_raw,
                   statistics, idleA>>

\* handle_client_request, events without EVENT_READ: nothing to do
A_NotReadable(c) ==
    /\ selPc = "iter"
    /\ <<c, "w">> \in ready_sockets
    /\ AfterItem(<<c, "w">>)
    /\ UNCHANGED <<clientVars, registered, closedSocks, handler_raw, statistics, idleA>>

\* handle_client_request: recv returns b'', or raises ConnectionResetError
\* which is caught and leaves recv_data None; the connection is closed
A_CloseOnEmpty(c) ==
    /\ selPc = "iter"
    /\ <<c, "rw">> \in ready_sockets
    /\ inbuf[c] = <<>>
    /\ close_client_connection(c)
    /\ AfterItem(<<c, "rw">>)
    /\ UNCHANGED <<clientVars, handler_raw, statistics, idleA>>

\* handle_client_request: parse_http_request raises on what was read, and
\* the exception leaves loop_forever
A_ParseRaises(c) ==
    /\ selPc = "iter"
    /\ <<c, "rw">> \in ready_sockets
    /\ inbuf[c] # <<>>
    /\ ParseFails(inbuf[c][1])
    /\ inbuf' = [inbuf EXCEPT ![c] = <<>>]
    /\ selPc' = "dead"
    /\ UNCHANGED <<phase, cstate, asked, answered, registered, closedSocks,
                   ready_sockets, handler_raw, statistics, idleA>>

\* handle_client_request: the request is parsed, counted, handed to the
\* first handler that should handle it (or answered 400), and send_all
\* sends the whole response
A_Respond(c) ==
    /\ selPc = "iter"
    /\ <<c, "rw">> \in ready_sockets
    /\ inbuf[c] # <<>>
    /\ ~ParseFails(inbuf[c][1])
    /\ LET raw == inbuf[c][1]
           h == FirstHandlerA(parse_http_request(raw))
       IN /\ statistics' = StatisticsAfterA(raw)
          /\ handler_raw' = IF h = 0 THEN handler_raw
                            ELSE [handler_raw EXCEPT ![h] = <<raw>>]
    /\ inbuf' = [inbuf EXCEPT ![c] = <<>>]
    /\ answered' = [answered EXCEPT ![c] = @ + 1]
    /\ AfterItem(<<c, "rw">>)
    /\ UNCHANGED <<phase, cstate, asked, registered, closedSocks, idleA>>

\* handle_client_request: as A_Respond, but a client_socket.send of send_all
\* raises: BrokenPipeError or ConnectionResetError when the client is gone,
\* BlockingIOError when the socket's buffer is full after an earlier chunk.
\* send_all catches nothing and the exception leaves loop_forever
A_SendRaises(c) ==
    /\ selPc = "iter"
    /\ <<c, "rw">> \in ready_sockets
    /\ inbuf[c] # <<>>
    /\ ~ParseFails(inbuf[c][1])
    /\ \/ cstate[c] = "gone"
       \/ ResponseA(inbuf[c][1]).length > OLD_BUFFER_SIZE
    /\ LET raw == inbuf[c][1]
           h == FirstHandlerA(parse_http_request(raw))
       IN /\ statistics' = StatisticsAfterA(raw)
          /\ handler_raw' = IF h = 0 THEN handler_raw
                            ELSE [handler_raw EXCEPT ![h] = <<raw>>]
    /\ inbuf' = [inbuf EXCEPT ![c] = <<>>]
    /\ selPc' = "dead"
    /\ UNCHANGED <<phase, cstate, asked, answered, registered, closedSocks,
                   ready_sockets, idleA>>

NextA ==
    \/ \E c \in Clients : ClientConnect(c)
    \/ \E c \in Clients : \E raw \in RawRequestsOfA(c) : ClientSend(c, raw)
    \/ \E c \in Clients : ClientClose(c)
    \/ A_Select
    \/ \E c \in Clients : A_Accept(c)
    \/ \E c \in Clients : A_NotReadable(c)
    \/ \E c \in Clients : A_CloseOnEmpty(c)
    \/ \E c \in Clients : A_ParseRaises(c)
    \/ \E c \in Clients : A_Respond(c)
    \/ \E c \in Clients : A_SendRaises(c)

SpecA == InitA /\ [][NextA]_vars

(***************************************************************************)
(* SpecSend: the loop of send_all (BaseServer.send_all, and the same loop  *)
(* in thread_per_request_server.py and, with BUFFER_SIZE 1024, in          *)
(* myhttpserver.py), on a socket whose send accepts a part of what it is   *)
(* offered.  A byte is known by its position in the response passed in:    *)
(* response is the slice [lo, hi) still to send, and accepted records how  *)
(* many bytes the socket took (upto) and whether each send started at the  *)
(* byte after the last one taken (intact), which is to say whether the     *)
(* bytes taken, in order, are the first upto bytes of the response.        *)
(***************************************************************************)
\* len(response) of the responses sent, around the buffer size
ResponseLengths(size) == {0, 1, 2, size - 1, size, size + 1, 2 * size, 2 * size + 1}

\* what client_socket.send may return when offered a chunk
AcceptedCounts(chunk) == {n \in {1, 2, chunk - 1, chunk} : 1 <= n /\ n <= chunk}

\* response[k:]
SliceFrom(slice, k) == [slice EXCEPT !.lo = Min(slice.lo + k, slice.hi)]

\* a loop that drops the chunk it offered whatever the socket took of it
RestDropsChunk(slice, bytes_sent, size) == SliceFrom(slice, size)

\* if bytes_sent < BUFFER_SIZE: response = response[bytes_sent:]
\* else: response = response[BUFFER_SIZE:]
RestOfResponse(slice, bytes_sent, size) ==
    IF bytes_sent < size THEN SliceFrom(slice, bytes_sent) ELSE SliceFrom(slice, size)

InitSend ==
    /\ buffer_size \in {BUFFER_SIZE, OLD_BUFFER_SIZE}
    /\ response \in {[lo |-> 0, hi |-> n] : n \in ResponseLengths(buffer_size)}
    /\ accepted = [upto |-> 0, intact |-> TRUE]
    /\ sends = 0
    /\ match_criteria = <<>>
    /\ match_request = <<>>
    /\ match_result = <<>>
    /\ static_handler = <<>>
    /\ static_url = <<>>
    /\ static_result = <<>>
    /\ weighted_servers = <<>>
    /\ random_num = 0
    /\ weighted_result = <<>>
    /\ phase = [c \in Clients |-> "new"]
    /\ cstate = [c \in Clients |-> "open"]
    /\ asked = [c \in Clients |-> 0]
    /\ answered = [c \in Clients |-> 0]
    /\ inbuf = [c \in Clients |-> <<>>]
    /\ registered = {}
    /\ closedSocks = {}
    /\ clients_currently_being_serviced = {}
    /\ selPc = "select"
    /\ ready_sockets = {}
    /\ threads = [c \in Clients |-> <<>>]
    /\ handler_raw = [h \in 1..NumHandlers |-> <<>>]
    /\ statistics = [n \in StatisticNames |-> 0]
    /\ passed = [n \in StatisticNames |-> 0]
    /\ statThreads = <<>>
    /\ server_index = 0
    /\ remote_servers = <<"A", "B", "C">>
    /\ picked = <<>>
    /\ lbThreads = <<>>
    /\ served = 0
    /\ last = NoRequest
    /\ tasks_and_context = <<>>
    /\ manage_result = <<>>
    /\ route_handlers = <<>>
    /\ route_index = <<>>
    /\ route_routed = <<>>
    /\ route_served = 0
    /\ route_last = <<>>
    /\ async_handler = <<>>
    /\ async_frame = <<>>
    /\ async_events = <<>>
    /\ async_result = <<>>

\* one turn of while response: send the first buffer_size bytes, keep what
\* the socket did not take
SendChunk ==
    /\ response.lo < response.hi
    /\ sends < MaxSends
    /\ \E bytes_sent \in AcceptedCounts(Min(response.hi - response.lo, buffer_size)) :
          /\ accepted' = [upto |-> accepted.upto + bytes_sent,
                          intact |-> accepted.intact /\ accepted.upto = response.lo]
          /\ response' = RestOfResponse(response, bytes_sent, buffer_size)
    /\ sends' = sends + 1
    /\ UNCHANGED <<buffer_size, matchVars, staticVars, weightedVars, laterVars, statVars, lbVars,
                   seqVars, bVars>>

NextSend == SendChunk

SpecSend == InitSend /\ [][NextSend]_vars

(***************************************************************************)
(* SpecMatch: HttpBaseHandler.should_handle on one handler and one request *)
(***************************************************************************)
\* the attributes a criterion can name: the url, the method, a header
CriteriaNames == {"url", "method", "Host"}

\* the lists of required values of a criterion
RequiredValues(name) ==
    IF name = "url"
    THEN {<<>>, << <<"/", "s", "/">> >>, << <<"/", "s", "/">>, <<"/", "x">> >>, << <<>> >>}
    ELSE IF name = "method" THEN {<<>>, <<"GET">>, <<"POST", "GET">>}
    ELSE {<<>>, <<"a">>}

\* a criterion a handler may or may not have: <<>> or <<its list>>
Optional(name) == {<<>>} \cup {<<list>> : list \in RequiredValues(name)}

\* match_criteria of a handler: every map from some of the names to lists
MatchCriteria ==
    {[name \in {n \in CriteriaNames :
                   (IF n = "url" THEN u ELSE IF n = "method" THEN m ELSE h) # <<>>} |->
         IF name = "url" THEN u[1] ELSE IF name = "method" THEN m[1] ELSE h[1]] :
       u \in Optional("url"), m \in Optional("method"), h \in Optional("Host")}

\* parsed requests
MatchRequests ==
    [method : {"GET", "POST"},
     requested_url : {UrlStaticA, UrlOther, <<"/">>},
     headers : [{"Host"} -> {"a", "b"}],
     payload : {<<"">>}]

InitMatch ==
    /\ match_criteria \in MatchCriteria
    /\ match_request \in MatchRequests
    /\ match_result = <<>>
    /\ buffer_size = BUFFER_SIZE
    /\ response = [lo |-> 0, hi |-> 0]
    /\ accepted = [upto |-> 0, intact |-> TRUE]
    /\ sends = 0
    /\ static_handler = <<>>
    /\ static_url = <<>>
    /\ static_result = <<>>
    /\ weighted_servers = <<>>
    /\ random_num = 0
    /\ weighted_result = <<>>
    /\ phase = [c \in Clients |-> "new"]
    /\ cstate = [c \in Clients |-> "open"]
    /\ asked = [c \in Clients |-> 0]
    /\ answered = [c \in Clients |-> 0]
    /\ inbuf = [c \in Clients |-> <<>>]
    /\ registered = {}
    /\ closedSocks = {}
    /\ clients_currently_being_serviced = {}
    /\ selPc = "select"
    /\ ready_sockets = {}
    /\ threads = [c \in Clients |-> <<>>]
    /\ handler_raw = [h \in 1..NumHandlers |-> <<>>]
    /\ statistics = [n \in StatisticNames |-> 0]
    /\ passed = [n \in StatisticNames |-> 0]
    /\ statThreads = <<>>
    /\ server_index = 0
    /\ remote_servers = <<"A", "B", "C">>
    /\ picked = <<>>
    /\ lbThreads = <<>>
    /\ served = 0
    /\ last = NoRequest
    /\ tasks_and_context = <<>>
    /\ manage_result = <<>>
    /\ route_handlers = <<>>
    /\ route_index = <<>>
    /\ route_routed = <<>>
    /\ route_served = 0
    /\ route_last = <<>>
    /\ async_handler = <<>>
    /\ async_frame = <<>>
    /\ async_events = <<>>
    /\ async_result = <<>>

\* handler.should_handle(http_request)
Match ==
    /\ match_result = <<>>
    /\ match_result' = <<should_handle([criteria |-> match_criteria], match_request)>>
    /\ UNCHANGED <<match_criteria, match_request, sendVars, staticVars, weightedVars, laterVars,
                   statVars, lbVars, seqVars, bVars>>

NextMatch == Match

SpecMatch == InitMatch /\ [][NextMatch]_vars

(***************************************************************************)
(* SpecStatic: StaticAssetHandler.handle_request, of http_handlers.py and  *)
(* of handlers.py, on one handler and one url.                             *)
(***************************************************************************)
\* criteria['url'] (requestsShouldStartWith in handlers.py) of the handler
PrefixLists ==
    {<< <<"/", "s", "/">> >>,
     << <<"/", "s">> >>,
     << <<"/", "s", "/">>, <<"/", "s", "/", "d", "/">> >>,
     << <<"/", "s", "/", "d", "/">>, <<"/", "s", "/">> >>}

\* the urls requested: a file of the index, a file that does not exist, a
\* file created after the handler was constructed, a directory, a file in
\* it, a file outside the static root, spellings of a file of the index
\* with '//' and '/./', and a url no prefix matches
StaticUrls ==
    {<<"/", "s", "/", "a">>,
     <<"/", "s", "/", "b">>,
     <<"/", "s", "/", "n">>,
     <<"/", "s", "/", "d">>,
     <<"/", "s", "/", "d", "/", "f">>,
     <<"/", "s", "/", ".", ".", "/", "e">>,
     <<"/", "s", "/", "/", "a">>,
     <<"/", "s", "/", ".", "/", "a">>,
     <<"/", "x">>}

StaticClasses == {"handlers/http_handlers.py", "handlers.py"}

InitStatic ==
    /\ static_handler \in [class : StaticClasses,
                           criteria : {[url |-> list] : list \in PrefixLists}]
    /\ static_url \in StaticUrls
    /\ static_result = <<>>
    /\ buffer_size = BUFFER_SIZE
    /\ response = [lo |-> 0, hi |-> 0]
    /\ accepted = [upto |-> 0, intact |-> TRUE]
    /\ sends = 0
    /\ match_criteria = <<>>
    /\ match_request = <<>>
    /\ match_result = <<>>
    /\ weighted_servers = <<>>
    /\ random_num = 0
    /\ weighted_result = <<>>
    /\ phase = [c \in Clients |-> "new"]
    /\ cstate = [c \in Clients |-> "open"]
    /\ asked = [c \in Clients |-> 0]
    /\ answered = [c \in Clients |-> 0]
    /\ inbuf = [c \in Clients |-> <<>>]
    /\ registered = {}
    /\ closedSocks = {}
    /\ clients_currently_being_serviced = {}
    /\ selPc = "select"
    /\ ready_sockets = {}
    /\ threads = [c \in Clients |-> <<>>]
    /\ handler_raw = [h \in 1..NumHandlers |-> <<>>]
    /\ statistics = [n \in StatisticNames |-> 0]
    /\ passed = [n \in StatisticNames |-> 0]
    /\ statThreads = <<>>
    /\ server_index = 0
    /\ remote_servers = <<"A", "B", "C">>
    /\ picked = <<>>
    /\ lbThreads = <<>>
    /\ served = 0
    /\ last = NoRequest
    /\ tasks_and_context = <<>>
    /\ manage_result = <<>>
    /\ route_handlers = <<>>
    /\ route_index = <<>>
    /\ route_routed = <<>>
    /\ route_served = 0
    /\ route_last = <<>>
    /\ async_handler = <<>>
    /\ async_frame = <<>>
    /\ async_events = <<>>
    /\ async_result = <<>>

\* handle_request of handlers/http_handlers.py
HandleStatic ==
    /\ static_result = <<>>
    /\ static_handler.class = "handlers/http_handlers.py"
    /\ static_result' =
          <<static_handle_request(static_handler, [requested_url |-> static_url])>>
    /\ UNCHANGED <<static_handler, static_url, sendVars, matchVars, weightedVars, laterVars,
                   statVars, lbVars, seqVars, bVars>>

\* handle_request of handlers.py
OldHandleStatic ==
    /\ static_result = <<>>
    /\ static_handler.class = "handlers.py"
    /\ static_result' =
          <<old_static_handle_request(static_handler, [requested_url |-> static_url])>>
    /\ UNCHANGED <<static_handler, static_url, sendVars, matchVars, weightedVars, laterVars,
                   statVars, lbVars, seqVars, bVars>>

NextStatic == HandleStatic \/ OldHandleStatic

SpecStatic == InitStatic /\ [][NextStatic]_vars

(***************************************************************************)
(* SpecWeighted: LoadBalancingHandler.weighted_strategy on one list of     *)
(* servers and one random number.  Numbers are counted in steps of         *)
(* 1/Precision: random.random() returns one of 0 .. Precision - 1, and a   *)
(* weight range has its ends in 0 .. Precision.                            *)
(***************************************************************************)
\* the weight ranges a server can have
WeightRanges == {[lo |-> lo, hi |-> hi] : lo \in 0..Precision, hi \in 0..Precision}

\* the names of the servers of a list, by place
ServerNames == <<"A", "B", "C">>

\* self.remote_servers: up to three servers, each with a weight range
WeightedLists ==
    UNION {{[i \in 1..n |-> [server |-> ServerNames[i], weight_range |-> ranges[i]]] :
              ranges \in [1..n -> {r \in WeightRanges : r.lo < r.hi}]} :
           n \in 1..Len(ServerNames)}

\* random_num in weight_range: the range holds its lower end and not its
\* upper end
InRange(number, weight_range) == weight_range.lo <= number /\ number < weight_range.hi

\* the for loop of weighted_strategy over the servers still to look at
RECURSIVE WeightedFrom(_, _)
WeightedFrom(servers, number) ==
    IF servers = <<>> THEN [outcome |-> "raised", server |-> ""]
    ELSE IF InRange(number, Head(servers).weight_range)
         THEN [outcome |-> "returned", server |-> Head(servers).server]
         ELSE WeightedFrom(Tail(servers), number)

\* a loop that compares the number with the upper ends only, as if the
\* servers were listed in the order of their ranges
WeightedByUpperEnd(servers, number) ==
    IF \E i \in 1..Len(servers) : number < servers[i].weight_range.hi
    THEN [outcome |-> "returned",
          server |-> servers[CHOOSE i \in 1..Len(servers) :
                                /\ number < servers[i].weight_range.hi
                                /\ \A j \in 1..(i - 1) :
                                      ~(number < servers[j].weight_range.hi)].server]
    ELSE [outcome |-> "raised", server |-> ""]

\* LoadBalancingHandler.weighted_strategy
weighted_strategy(servers, number) == WeightedFrom(servers, number)

InitWeighted ==
    /\ weighted_servers \in WeightedLists
    /\ random_num \in 0..(Precision - 1)
    /\ weighted_result = <<>>
    /\ buffer_size = BUFFER_SIZE
    /\ response = [lo |-> 0, hi |-> 0]
    /\ accepted = [upto |-> 0, intact |-> TRUE]
    /\ sends = 0
    /\ match_criteria = <<>>
    /\ match_request = <<>>
    /\ match_result = <<>>
    /\ static_handler = <<>>
    /\ static_url = <<>>
    /\ static_result = <<>>
    /\ phase = [c \in Clients |-> "new"]
    /\ cstate = [c \in Clients |-> "open"]
    /\ asked = [c \in Clients |-> 0]
    /\ answered = [c \in Clients |-> 0]
    /\ inbuf = [c \in Clients |-> <<>>]
    /\ registered = {}
    /\ closedSocks = {}
    /\ clients_currently_being_serviced = {}
    /\ selPc = "select"
    /\ ready_sockets = {}
    /\ threads = [c \in Clients |-> <<>>]
    /\ handler_raw = [h \in 1..NumHandlers |-> <<>>]
    /\ statistics = [n \in StatisticNames |-> 0]
    /\ passed = [n \in StatisticNames |-> 0]
    /\ statThreads = <<>>
    /\ server_index = 0
    /\ remote_servers = <<"A", "B", "C">>
    /\ picked = <<>>
    /\ lbThreads = <<>>
    /\ served = 0
    /\ last = NoRequest
    /\ tasks_and_context = <<>>
    /\ manage_result = <<>>
    /\ route_handlers = <<>>
    /\ route_index = <<>>
    /\ route_routed = <<>>
    /\ route_served = 0
    /\ route_last = <<>>
    /\ async_handler = <<>>
    /\ async_frame = <<>>
    /\ async_events = <<>>
    /\ async_result = <<>>

\* strategy_func() with strategy 'weighted'
PickWeighted ==
    /\ weighted_result = <<>>
    /\ weighted_result' = <<weighted_strategy(weighted_servers, random_num)>>
    /\ UNCHANGED <<weighted_servers, random_num, sendVars, matchVars, staticVars, laterVars,
                   statVars, lbVars, seqVars, bVars>>

NextWeighted == PickWeighted

SpecWeighted == InitWeighted /\ [][NextWeighted]_vars

(***************************************************************************)
(* SpecManage: ManageHandlers.pick_handlers of handlers.py on one settings *)
(* map.  The settings are a dict from task to context, so a task occurs in *)
(* them once; the loop takes its items in the order they were put in.      *)
(***************************************************************************)
\* tasks a settings map has at most
MaxTasks == 3

\* the task tags settings can name, and the contexts they can give a task
TaskTags == {"serveStatic", "reverseProxy", "loadBalance", "healthCheck"}
TaskContexts == {"context1", "context2"}

\* self.task_to_handler
task_to_handler == [serveStatic |-> "StaticAssetHandler"]

\* the items() of the settings maps of up to MaxTasks tasks
SettingsMaps ==
    UNION {{items \in [1..n -> TaskTags \X TaskContexts] :
              \A j, k \in 1..n : items[j][1] = items[k][1] => j = k} :
           n \in 0..MaxTasks}

\* the for loop of pick_handlers over the items still to look at:
\* handlerClass(context) is appended for a task of task_to_handler,
\* NotImplementedError is raised at the first task that is not one
RECURSIVE PickFrom(_, _)
PickFrom(items, task_handlers) ==
    IF items = <<>> THEN [outcome |-> "returned", value |-> <<task_handlers>>]
    ELSE IF Head(items)[1] \in DOMAIN task_to_handler
         THEN PickFrom(Tail(items),
                       Append(task_handlers,
                              [class |-> task_to_handler[Head(items)[1]],
                               full_context |-> Head(items)[2]]))
         ELSE [outcome |-> "raised", value |-> <<>>]

\* a loop that passes over the tasks task_to_handler does not know
PickHandlersOfKnownTasks(settings) ==
    PickFrom(SelectSeq(settings, LAMBDA item : item[1] \in DOMAIN task_to_handler), <<>>)

\* ManageHandlers.pick_handlers
pick_handlers(settings) == PickFrom(settings, <<>>)

InitManage ==
    /\ tasks_and_context \in SettingsMaps
    /\ manage_result = <<>>
    /\ route_handlers = <<>>
    /\ route_index = <<>>
    /\ route_routed = <<>>
    /\ route_served = 0
    /\ route_last = <<>>
    /\ async_handler = <<>>
    /\ async_frame = <<>>
    /\ async_events = <<>>
    /\ async_result = <<>>
    /\ buffer_size = BUFFER_SIZE
    /\ response = [lo |-> 0, hi |-> 0]
    /\ accepted = [upto |-> 0, intact |-> TRUE]
    /\ sends = 0
    /\ match_criteria = <<>>
    /\ match_request = <<>>
    /\ match_result = <<>>
    /\ static_handler = <<>>
    /\ static_url = <<>>
    /\ static_result = <<>>
    /\ weighted_servers = <<>>
    /\ random_num = 0
    /\ weighted_result = <<>>
    /\ phase = [c \in Clients |-> "new"]
    /\ cstate = [c \in Clients |-> "open"]
    /\ asked = [c \in Clients |-> 0]
    /\ answered = [c \in Clients |-> 0]
    /\ inbuf = [c \in Clients |-> <<>>]
    /\ registered = {}
    /\ closedSocks = {}
    /\ clients_currently_being_serviced = {}
    /\ selPc = "select"
    /\ ready_sockets = {}
    /\ threads = [c \in Clients |-> <<>>]
    /\ handler_raw = [h \in 1..NumHandlers |-> <<>>]
    /\ statistics = [n \in StatisticNames |-> 0]
    /\ passed = [n \in StatisticNames |-> 0]
    /\ statThreads = <<>>
    /\ server_index = 0
    /\ remote_servers = <<"A", "B", "C">>
    /\ picked = <<>>
    /\ lbThreads = <<>>
    /\ served = 0
    /\ last = NoRequest

\* relevant_task_handlers = ManageHandlers(settings).pick_handlers()
PickHandlers ==
    /\ manage_result = <<>>
    /\ manage_result' = <<pick_handlers(tasks_and_context)>>
    /\ UNCHANGED <<tasks_and_context, routeVars, asyncVars, sendVars, matchVars, staticVars,
                   weightedVars, statVars, lbVars, seqVars, bVars>>

NextManage == PickHandlers

SpecManage == InitManage /\ [][NextManage]_vars

(***************************************************************************)
(* SpecRoute: BaseServer.on_received_data over one of several handler      *)
(* lists, one request after the other.  A handler is its type, its match   *)
(* criteria and, for a load balancer, its strategy and its servers.        *)
(***************************************************************************)
\* requests on_received_data is called with
MaxRouted == 3

\* match criteria over some of the names url and method
Criteria(names, urls, methods) ==
    [name \in names |-> IF name = "url" THEN urls ELSE methods]

StaticAssets(criteria) ==
    [type |-> "serveStatic", criteria |-> criteria, strategy |-> "", send_to |-> <<>>]

RoundRobin(criteria) ==
    [type |-> "loadBalance", criteria |-> criteria, strategy |-> "round_robin",
     send_to |-> <<[server |-> "A"], [server |-> "B"], [server |-> "C"]>>]

Weighted(criteria) ==
    [type |-> "loadBalance", criteria |-> criteria, strategy |-> "weighted",
     send_to |-> <<[server |-> "A", weight_range |-> [lo |-> 0, hi |-> 1]],
                   [server |-> "B", weight_range |-> [lo |-> 1, hi |-> Precision]]>>]

UnderS == Criteria({"url"}, << <<"/", "s", "/">> >>, <<>>)
UnderSdOrS == Criteria({"url"}, << <<"/", "s", "/", "d", "/">>, <<"/", "s", "/">> >>, <<>>)
UnderX == Criteria({"url"}, << <<"/", "x">> >>, <<>>)
UnderNothing == Criteria({"url"}, <<>>, <<>>)
EveryGet == Criteria({"method"}, <<>>, <<"GET">>)
EveryRequest == Criteria({}, <<>>, <<>>)

\* self.request_handlers: the lists the handler manager can have prepared
\* from settings
RouteHandlerLists ==
    {<<StaticAssets(UnderS), RoundRobin(EveryGet)>>,
     <<RoundRobin(EveryGet), StaticAssets(UnderS)>>,
     <<StaticAssets(UnderNothing), StaticAssets(UnderSdOrS)>>,
     <<StaticAssets(EveryGet), RoundRobin(EveryRequest)>>,
     <<StaticAssets(EveryRequest)>>,
     <<Weighted(UnderX), RoundRobin(EveryGet)>>,
     <<RoundRobin(UnderX), Weighted(EveryRequest)>>,
     <<RoundRobin(EveryGet), RoundRobin(EveryRequest)>>}

\* the requests on_received_data is called with
RouteRequests ==
    RawRequestsOf("c1")
        \cup {RawRequest("POST", UrlStaticA, "c1"),
              RawRequest("GET", <<"/", "s", "/", "d", "/", "f">>, "c1")}

\* the for loop of on_received_data over handlers from handler i on: the
\* handlers it probes and the one it stops at, 0 if it runs to its else
RECURSIVE RouteFrom(_, _, _)
RouteFrom(handlers, http_request, i) ==
    IF i > Len(handlers) THEN [probed |-> <<>>, match |-> 0]
    ELSE IF should_handle(handlers[i], http_request)
         THEN [probed |-> <<i>>, match |-> i]
         ELSE LET rest == RouteFrom(handlers, http_request, i + 1)
              IN [probed |-> <<i>> \o rest.probed, match |-> rest.match]

\* a dispatcher that hands the request to the first handler without asking
\* should_handle
RouteWithoutShouldHandle(handlers, http_request) == [probed |-> <<>>, match |-> 1]

\* for handler in self.request_handlers: if handler.should_handle(http_request)
Route(handlers, http_request) == RouteFrom(handlers, http_request, 1)

\* how StaticAssetHandler.remove_url_prefix ends: with the KeyError of
\* self.http_request_match_criteria['url'], at the return inside the loop,
\* or at the raise after it
StripEnds(handler, http_request) ==
    IF "url" \notin DOMAIN handler.criteria THEN "KeyError"
    ELSE IF \E k \in 1..Len(handler.criteria["url"]) :
               StartsWith(http_request.requested_url, handler.criteria["url"][k])
         THEN "returned"
         ELSE "Exception"

\* a strategy_func that counts the pick whatever the strategy
StrategyCountsEveryPick(handler, index, number) ==
    IF handler.strategy = "round_robin"
    THEN [outcome |-> "returned",
          server |-> handler.send_to[(index % Len(handler.send_to)) + 1].server,
          index |-> index + 1]
    ELSE [outcome |-> weighted_strategy(handler.send_to, number).outcome,
          server |-> weighted_strategy(handler.send_to, number).server,
          index |-> index + 1]

\* strategy_func = self.strategy_mapping[self.strategy]; strategy_func():
\* round_robin_strategy returns the server at server_index and adds one to
\* server_index, weighted_strategy leaves server_index alone
strategy_func(handler, index, number) ==
    IF handler.strategy = "round_robin"
    THEN [outcome |-> "returned",
          server |-> handler.send_to[(index % Len(handler.send_to)) + 1].server,
          index |-> index + 1]
    ELSE [outcome |-> weighted_strategy(handler.send_to, number).outcome,
          server |-> weighted_strategy(handler.send_to, number).server,
          index |-> index]

NotRouted ==
    [raw |-> <<>>, probed |-> <<>>, invoked |-> <<>>, strip |-> "", server |-> "",
     outcome |-> "none", status |-> 0]

InitRoute ==
    /\ route_handlers \in RouteHandlerLists
    /\ route_index = [h \in 1..Len(route_handlers) |-> 0]
    /\ route_routed = [h \in 1..Len(route_handlers) |-> 0]
    /\ route_served = 0
    /\ route_last = NotRouted
    /\ async_handler = <<>>
    /\ async_frame = <<>>
    /\ async_events = <<>>
    /\ async_result = <<>>
    /\ buffer_size = BUFFER_SIZE
    /\ response = [lo |-> 0, hi |-> 0]
    /\ accepted = [upto |-> 0, intact |-> TRUE]
    /\ sends = 0
    /\ match_criteria = <<>>
    /\ match_request = <<>>
    /\ match_result = <<>>
    /\ static_handler = <<>>
    /\ static_url = <<>>
    /\ static_result = <<>>
    /\ weighted_servers = <<>>
    /\ random_num = 0
    /\ weighted_result = <<>>
    /\ phase = [c \in Clients |-> "new"]
    /\ cstate = [c \in Clients |-> "open"]
    /\ asked = [c \in Clients |-> 0]
    /\ answered = [c \in Clients |-> 0]
    /\ inbuf = [c \in Clients |-> <<>>]
    /\ registered = {}
    /\ closedSocks = {}
    /\ clients_currently_being_serviced = {}
    /\ selPc = "select"
    /\ ready_sockets = {}
    /\ threads = [c \in Clients |-> <<>>]
    /\ handler_raw = [h \in 1..NumHandlers |-> <<>>]
    /\ statistics = [n \in StatisticNames |-> 0]
    /\ passed = [n \in StatisticNames |-> 0]
    /\ statThreads = <<>>
    /\ server_index = 0
    /\ remote_servers = <<"A", "B", "C">>
    /\ picked = <<>>
    /\ lbThreads = <<>>
    /\ served = 0
    /\ last = NoRequest
    /\ tasks_and_context = <<>>
    /\ manage_result = <<>>

RouteIdle == <<route_handlers, manageVars, asyncVars, sendVars, matchVars, staticVars, weightedVars,
               statVars, lbVars, seqVars, bVars>>

\* on_received_data: no handler should handle the request, and the else of
\* the for loop answers 400
Route_NoHandler(raw) ==
    /\ route_served < MaxRouted
    /\ LET found == Route(route_handlers, parse_http_request(raw)) IN
       /\ found.match = 0
       /\ route_last' = [NotRouted EXCEPT !.raw = raw, !.probed = found.probed,
                                          !.outcome = "responded", !.status = 400]
    /\ route_served' = route_served + 1
    /\ UNCHANGED <<route_index, route_routed, RouteIdle>>

\* on_received_data: a static handler is the first that should handle the
\* request; its handle_request strips the url prefix and looks the file up
Route_Static(raw) ==
    /\ route_served < MaxRouted
    /\ LET http_request == parse_http_request(raw)
           found == Route(route_handlers, http_request)
           h == found.match
       IN
       /\ h # 0
       /\ route_handlers[h].type = "serveStatic"
       /\ route_routed' = [route_routed EXCEPT ![h] = @ + 1]
       /\ LET ends == StripEnds(route_handlers[h], http_request)
              did == IF ends = "returned"
                     THEN static_handle_request(route_handlers[h], http_request)
                     ELSE StaticRaised
          IN route_last' = [NotRouted EXCEPT
                              !.raw = raw, !.probed = found.probed, !.invoked = <<h>>,
                              !.strip = ends,
                              !.outcome = IF did.outcome = "returned" THEN "responded"
                                          ELSE "raised",
                              !.status = did.status]
    /\ route_served' = route_served + 1
    /\ UNCHANGED <<route_index, RouteIdle>>

\* on_received_data: a load balancer is the first that should handle the
\* request; its handle_request picks a server by its strategy, and
\* connect_and_send forwards the request or raises
Route_LoadBalance(raw, reached, number) ==
    /\ route_served < MaxRouted
    /\ LET found == Route(route_handlers, parse_http_request(raw))
           h == found.match
       IN
       /\ h # 0
       /\ route_handlers[h].type = "loadBalance"
       /\ route_routed' = [route_routed EXCEPT ![h] = @ + 1]
       /\ LET pick == strategy_func(route_handlers[h], route_index[h], number) IN
          /\ route_index' = [route_index EXCEPT ![h] = pick.index]
          /\ route_last' = [NotRouted EXCEPT
                              !.raw = raw, !.probed = found.probed, !.invoked = <<h>>,
                              !.server = pick.server,
                              !.outcome = IF pick.outcome = "returned" /\ reached
                                          THEN "responded" ELSE "raised",
                              !.status = IF pick.outcome = "returned" /\ reached
                                         THEN 200 ELSE 0]
    /\ route_served' = route_served + 1
    /\ UNCHANGED RouteIdle

NextRoute ==
    \/ \E raw \in RouteRequests : Route_NoHandler(raw)
    \/ \E raw \in RouteRequests : Route_Static(raw)
    \/ \E raw \in RouteRequests, reached \in BOOLEAN, number \in 0..(Precision - 1) :
          Route_LoadBalance(raw, reached, number)

SpecRoute == InitRoute /\ [][NextRoute]_vars

(***************************************************************************)
(* SpecAsync: the generator of AsyncReverseProxyHandler.handle_request and *)
(* of AsyncLoadBalancingHandler.handle_request, stepped by the runtime     *)
(* that called it.  handle_request delegates to connect_and_send with      *)
(* yield from, and connect_and_send to async_send_all; what any of them    *)
(* yields reaches the runtime, which resumes the generator when the socket *)
(* is ready.  async_events records what the generator did: the function    *)
(* that did it (at), the operation (op) and its argument or outcome (arg). *)
(***************************************************************************)
\* chunks in which the upstream socket takes the raw request
MaxChunks == 2

AsyncClasses == {"AsyncReverseProxyHandler", "AsyncLoadBalancingHandler"}

\* what the upstream replies: status line, blank line, body
UpstreamReplies ==
    {<< <<"HTTP/1.1", 200, "OK">>, <<>>, <<"up">> >>,
     << <<"HTTP/1.1", 404, "Not Found">>, <<>>, <<"none">> >>}

\* HttpResponse.from_bytes(data)
HttpResponseFromBytes(data) == [status |-> data[1][2], body |-> data[3][1]]

Event(at, op, arg) == [at |-> at, op |-> op, arg |-> arg]

\* yield ResourceTask(remote_server, event)
YieldTask(at, event) == Event(at, "yield", event)

Did(event) == async_events' = Append(async_events, event)
DidBoth(first, second) == async_events' = async_events \o <<first, second>>

InitAsync ==
    /\ async_handler \in [class : AsyncClasses,
                          raw : {RawRequest("GET", UrlOther, "c1")},
                          chunks : 1..MaxChunks,
                          reply : UpstreamReplies]
    /\ async_frame = [pc |-> IF async_handler.class = "AsyncLoadBalancingHandler"
                             THEN "pick" ELSE "connect",
                      remote_host |-> IF async_handler.class = "AsyncLoadBalancingHandler"
                                      THEN "" ELSE "A",
                      unsent |-> async_handler.chunks]
    /\ async_events = <<>>
    /\ async_result = <<>>
    /\ buffer_size = BUFFER_SIZE
    /\ response = [lo |-> 0, hi |-> 0]
    /\ accepted = [upto |-> 0, intact |-> TRUE]
    /\ sends = 0
    /\ match_criteria = <<>>
    /\ match_request = <<>>
    /\ match_result = <<>>
    /\ static_handler = <<>>
    /\ static_url = <<>>
    /\ static_result = <<>>
    /\ weighted_servers = <<>>
    /\ random_num = 0
    /\ weighted_result = <<>>
    /\ phase = [c \in Clients |-> "new"]
    /\ cstate = [c \in Clients |-> "open"]
    /\ asked = [c \in Clients |-> 0]
    /\ answered = [c \in Clients |-> 0]
    /\ inbuf = [c \in Clients |-> <<>>]
    /\ registered = {}
    /\ closedSocks = {}
    /\ clients_currently_being_serviced = {}
    /\ selPc = "select"
    /\ ready_sockets = {}
    /\ threads = [c \in Clients |-> <<>>]
    /\ handler_raw = [h \in 1..NumHandlers |-> <<>>]
    /\ statistics = [n \in StatisticNames |-> 0]
    /\ passed = [n \in StatisticNames |-> 0]
    /\ statThreads = <<>>
    /\ server_index = 0
    /\ remote_servers = <<"A", "B", "C">>
    /\ picked = <<>>
    /\ lbThreads = <<>>
    /\ served = 0
    /\ last = NoRequest
    /\ tasks_and_context = <<>>
    /\ manage_result = <<>>
    /\ route_handlers = <<>>
    /\ route_index = <<>>
    /\ route_routed = <<>>
    /\ route_served = 0
    /\ route_last = <<>>

AsyncIdle == <<async_handler, manageVars, routeVars, sendVars, matchVars, staticVars,
               weightedVars, statVars, lbVars, seqVars, bVars>>

AsyncAt(pc) == async_result = <<>> /\ async_frame.pc = pc

\* the generator ends with an exception, which leaves connect_and_send and
\* handle_request for the runtime
AsyncRaises(event) ==
    /\ Did(event)
    /\ async_frame' = [async_frame EXCEPT !.pc = "done"]
    /\ async_result' = <<[outcome |-> "raised", value |-> <<>>]>>

\* AsyncLoadBalancingHandler.handle_request: remote_host, remote_port = strategy_func()
Async_Pick(index) ==
    /\ AsyncAt("pick")
    /\ LET pick == strategy_func(RoundRobin(EveryRequest), index, 0) IN
       /\ Did(Event("handle_request", "pick", pick.server))
       /\ async_frame' = [async_frame EXCEPT !.pc = "connect", !.remote_host = pick.server]
    /\ UNCHANGED <<async_result, AsyncIdle>>

\* connect_and_send: connect on the non-blocking socket raises
\* BlockingIOError, the connection is under way; yield the writable task
Async_ConnectPending ==
    /\ AsyncAt("connect")
    /\ DidBoth(Event("connect_and_send", "connect", "BlockingIOError"),
               YieldTask("connect_and_send", "writable"))
    /\ async_frame' = [async_frame EXCEPT !.pc = "connecting"]
    /\ UNCHANGED <<async_result, AsyncIdle>>

\* connect_and_send: connect returns at once
Async_ConnectReturns ==
    /\ AsyncAt("connect")
    /\ Did(Event("connect_and_send", "connect", "returned"))
    /\ async_frame' = [async_frame EXCEPT !.pc = "send_all"]
    /\ UNCHANGED <<async_result, AsyncIdle>>

\* connect_and_send: connect raises another OSError
Async_ConnectRaises ==
    /\ AsyncAt("connect")
    /\ AsyncRaises(Event("connect_and_send", "raise", "connect"))
    /\ UNCHANGED AsyncIdle

\* the runtime resumes the generator where it yielded
Async_Resume ==
    /\ async_result = <<>>
    /\ async_frame.pc \in {"connecting", "writable", "readable"}
    /\ async_frame' = [async_frame EXCEPT
                          !.pc = IF @ = "connecting" THEN "send_all"
                                 ELSE IF @ = "writable" THEN "send" ELSE "read"]
    /\ UNCHANGED <<async_events, async_result, AsyncIdle>>

\* async_send_all, while some of the request is unsent: yield the writable
\* task before it sends
Async_SendAllYields ==
    /\ AsyncAt("send_all")
    /\ async_frame.unsent > 0
    /\ Did(YieldTask("async_send_all", "writable"))
    /\ async_frame' = [async_frame EXCEPT !.pc = "writable"]
    /\ UNCHANGED <<async_result, AsyncIdle>>

\* async_send_all: the socket takes the next chunk
Async_SendAllSends ==
    /\ AsyncAt("send")
    /\ Did(Event("async_send_all", "send", async_frame.unsent))
    /\ async_frame' = [async_frame EXCEPT !.pc = "send_all", !.unsent = @ - 1]
    /\ UNCHANGED <<async_result, AsyncIdle>>

\* async_send_all: send raises (the connection was refused or reset)
Async_SendAllRaises ==
    /\ AsyncAt("send")
    /\ AsyncRaises(Event("async_send_all", "raise", "send"))
    /\ UNCHANGED AsyncIdle

\* a connect_and_send that reads as soon as the request is sent
Async_ReadsUnasked ==
    /\ AsyncAt("send_all")
    /\ async_frame.unsent = 0
    /\ async_frame' = [async_frame EXCEPT !.pc = "read"]
    /\ UNCHANGED <<async_events, async_result, AsyncIdle>>

\* connect_and_send, async_send_all has returned:
\* yield ResourceTask(remote_server, 'readable')
Async_YieldsReadable ==
    /\ AsyncAt("send_all")
    /\ async_frame.unsent = 0
    /\ Did(YieldTask("connect_and_send", "readable"))
    /\ async_frame' = [async_frame EXCEPT !.pc = "readable"]
    /\ UNCHANGED <<async_result, AsyncIdle>>

\* connect_and_send: data = read_all(remote_server)
Async_Reads ==
    /\ AsyncAt("read")
    /\ Did(Event("connect_and_send", "recv", async_handler.reply))
    /\ async_frame' = [async_frame EXCEPT !.pc = "parse"]
    /\ UNCHANGED <<async_result, AsyncIdle>>

\* connect_and_send: read_all raises (the upstream reset the connection)
Async_ReadRaises ==
    /\ AsyncAt("read")
    /\ AsyncRaises(Event("connect_and_send", "raise", "recv"))
    /\ UNCHANGED AsyncIdle

\* connect_and_send: http_response = HttpResponse.from_bytes(data);
\* return http_response.  handle_request: http_response = yield from ...;
\* return http_response
Async_Returns ==
    /\ AsyncAt("parse")
    /\ LET data == async_events[Len(async_events)].arg
           http_response == HttpResponseFromBytes(data)
       IN /\ Did(Event("connect_and_send", "return", http_response))
          /\ async_result' = <<[outcome |-> "returned", value |-> <<http_response>>]>>
    /\ async_frame' = [async_frame EXCEPT !.pc = "done"]
    /\ UNCHANGED AsyncIdle

NextAsync ==
    \/ \E index \in 0..2 : Async_Pick(index)
    \/ Async_ConnectPending
    \/ Async_ConnectReturns
    \/ Async_ConnectRaises
    \/ Async_Resume
    \/ Async_SendAllYields
    \/ Async_SendAllSends
    \/ Async_SendAllRaises
    \/ Async_YieldsReadable
    \/ Async_Reads
    \/ Async_ReadRaises
    \/ Async_Returns

SpecAsync == InitAsync /\ [][NextAsync]_vars

(***************************************************************************)
(* Properties of the thread-per-request server.                            *)
(***************************************************************************)
\* the first handler of the list that should handle the request, 0 if none
FirstMatch(http_request) ==
    IF \E h \in 1..NumHandlers : should_handle(request_handlers[h], http_request)
    THEN CHOOSE h \in 1..NumHandlers :
            /\ should_handle(request_handlers[h], http_request)
            /\ \A g \in 1..(h - 1) : ~should_handle(request_handlers[g], http_request)
    ELSE 0

\* C1: in every thread the request is parsed before a handler is probed, the
\* handlers are probed in list order and only up to the first that matches,
\* and handle_request is invoked on at most one handler, that first match.
C1_DispatchOrder ==
    \A c \in Clients : \A k \in ThreadsOn(c) :
        LET f == threads[c][k] IN
        /\ (f.probed # <<>> \/ f.invoked # <<>>) => f.req # <<>>
        /\ \A j \in 1..Len(f.probed) : f.probed[j] = j
        /\ \A j \in 1..(Len(f.probed) - 1) :
              ~should_handle(request_handlers[f.probed[j]], f.req[1])
        /\ Len(f.invoked) <= 1
        /\ f.invoked # <<>> =>
              /\ f.invoked[1] = FirstMatch(f.req[1])
              /\ f.probed = [j \in 1..f.invoked[1] |-> j]

\* a request that both handlers match has been handed to the first one
C1_Witness ==
    \E c \in Clients : \E k \in ThreadsOn(c) :
        /\ threads[c][k].pc = "send"
        /\ threads[c][k].invoked = <<1>>
        /\ should_handle(request_handlers[2], threads[c][k].req[1])

C4_OneThreadPerSocket ==
    \A c \in Clients : Len(threads[c]) <= 1

\* a socket select() reported again while its thread is still running
C4_Witness ==
    \E c \in Clients :
        /\ Len(threads[c]) = 1
        /\ selPc = "iter"
        /\ c \in ready_sockets
        /\ threads[c][1].pc # "recv"

\* C5: a thread is started for a client socket only when the socket has
\* something to read (bytes, or the end of the stream) that no earlier
\* thread has read.
C5_DispatchOnlyUnreadInput ==
    [][\A c \in Clients :
          (c \notin clients_currently_being_serviced
             /\ c \in clients_currently_being_serviced') => Readable(c)]_vars

\* C6: the response a thread sends on its connection was computed from the
\* request it read on that connection.
C6_ResponseFromOwnRequest ==
    \A c \in Clients : \A k \in ThreadsOn(c) :
        (threads[c][k].resp # <<>> /\ threads[c][k].resp[1].by # 0) =>
            threads[c][k].resp[1].of = threads[c][k].raw[1]

\* C7: a request a client has sent is eventually answered in full, unless
\* the client closes or drops the connection.
C7_EveryRequestAnswered ==
    \A c \in Clients :
        (asked[c] > answered[c]) ~> (asked[c] = answered[c] \/ cstate[c] = "gone")

(***************************************************************************)
(* Properties of the shared counters.                                      *)
(***************************************************************************)
RECURSIVE SumOver(_, _)
SumOver(f, S) ==
    IF S = {} THEN 0
    ELSE LET x == CHOOSE y \in S : TRUE IN f[x] + SumOver(f, S \ {x})

\* picks that have returned
CompletedPicks == SumOver([t \in LBThreadIds |-> lbThreads[t].picks], LBThreadIds)

\* the place of a server in remote_servers
PlaceOf(server) == CHOOSE j \in 1..Len(remote_servers) : remote_servers[j] = server

\* C9: under every interleaving the counter equals the number of picks that
\* have returned whenever no pick is under way, and the i-th pick is the
\* server of place i in the rotation, or of the place before or after it.
C9_AtomicIncrement ==
    /\ (\A t \in LBThreadIds : lbThreads[t].pc = "pick") =>
          server_index = CompletedPicks
    /\ \A i \in 1..Len(picked) :
          \E d \in {-1, 0, 1} :
              PlaceOf(picked[i]) = ((i - 1 + d) % Len(remote_servers)) + 1

\* C10: once every thread has finished, each statistic equals the sum of
\* the increments update_statistics was called with, and requests_recv the
\* number of requests read.
C10_NoLostUpdate ==
    (\A t \in StatThreadIds : statThreads[t].pc = "done") =>
        /\ \A n \in StatisticNames : statistics[n] = passed[n]
        /\ statistics["requests_recv"] = NumStatThreads

(***************************************************************************)
(* Properties of the single-threaded server.                               *)
(***************************************************************************)
\* how often the server occurs among the picks
Occurrences(server) == Cardinality({i \in 1..Len(picked) : picked[i] = server})

\* C2: a request no handler should handle is answered by exactly one
\* response, of status 400, and handle_request is invoked on no handler:
\* nothing is forwarded, no file is read, the round-robin index stays.
C2_NoMatchIs400 ==
    [][(served' = served + 1
          /\ ~ParseFails(last'.raw)
          /\ FirstMatch(parse_http_request(last'.raw)) = 0) =>
         /\ Len(last'.responses) = 1
         /\ last'.responses[1].status = 400
         /\ last'.invoked = <<>>
         /\ last'.forwarded = <<>>
         /\ last'.reads = <<>>
         /\ UNCHANGED <<server_index, picked, handler_raw>>]_vars

\* a request no handler matches was answered after the load balancer had
\* picked servers for earlier ones
C2_Witness ==
    /\ last.outcome = "responded"
    /\ last.probed = <<1, 2>>
    /\ last.invoked = <<>>
    /\ last.responses = <<NoHandlerResponse>>
    /\ server_index > 0

\* C8: picks made one after the other go round the list: the i-th pick
\* (from 0) is remote_servers[i mod N], and after k*N picks every server
\* has been picked k times.
C8_RoundRobin ==
    LET N == Len(remote_servers) IN
    /\ \A i \in 1..Len(picked) : picked[i] = remote_servers[((i - 1) % N) + 1]
    /\ server_index = Len(picked)
    /\ Len(picked) % N = 0 =>
          \A j \in 1..N : Occurrences(remote_servers[j]) = Len(picked) \div N

\* seven requests through the balancer of A, B, C
C8_Witness ==
    /\ remote_servers = <<"A", "B", "C">>
    /\ picked = <<"A", "B", "C", "A", "B", "C", "A">>

(***************************************************************************)
(* Properties of the server of one thread.                                 *)
(***************************************************************************)
\* C11: whatever a request does (bytes that do not parse, a send that
\* fails, a client that resets), loop_forever keeps running.
C11_LoopKeepsRunning == selPc # "dead"

(***************************************************************************)
(* Properties of error handling.                                           *)
(***************************************************************************)
\* C12: bytes that do not parse as a request are answered with one response
\* of status 400, and no handler is probed or invoked.
C12_MalformedIs400 ==
    (served > 0 /\ ParseFails(last.raw)) =>
        /\ Len(last.responses) = 1
        /\ last.responses[1].status = 400
        /\ last.probed = <<>>
        /\ last.invoked = <<>>

\* C13: when the upstream of the handler that was invoked cannot be reached,
\* handle_request returns a response of status 502 and raises nothing.
C13_UpstreamFailureIs502 ==
    (/\ last.invoked # <<>>
     /\ CallsUpstream(last.invoked[1])
     /\ last.forwarded = <<>>) =>
        /\ last.outcome = "responded"
        /\ Len(last.responses) = 1
        /\ last.responses[1].status = 502

\* C14: the thread whose read returned nothing closes the connection, writes
\* no response, probes no handler, and leaves the socket out of
\* clients_currently_being_serviced.
C14_EmptyReadClosesAndUnmarks ==
    [][\A c \in Clients :
          ((\E k \in ThreadsOn(c) : threads[c][k].pc = "close")
             /\ Len(threads'[c]) < Len(threads[c])) =>
                /\ c \in closedSocks'
                /\ c \notin registered'
                /\ answered'[c] = answered[c]
                /\ \A k \in ThreadsOn(c) :
                      threads[c][k].pc = "close" =>
                          threads[c][k].probed = <<>> /\ threads[c][k].resp = <<>>
                /\ c \notin clients_currently_being_serviced']_vars

\* C15: a send that would block leaves the connection open (send_all tries
\* again); send_all closes the connection only when the client is gone.
C15_WouldBlockKeepsConnection ==
    [][\A c \in Clients :
          ((\E k \in ThreadsOn(c) : threads[c][k].pc = "send")
             /\ c \notin closedSocks
             /\ c \in closedSocks') => cstate[c] = "gone"]_vars

(***************************************************************************)
(* Properties of single functions.                                         *)
(***************************************************************************)
\* C16: whatever part of each chunk the socket takes, the bytes it has
\* taken are, in order, the first bytes of the response, the rest of the
\* response is what is still to send, and when nothing is left to send the
\* socket has taken the whole response.
C16_SendsResponseFully ==
    /\ accepted.intact
    /\ accepted.upto = response.lo
    /\ accepted.upto >= sends
    /\ response.lo = response.hi => accepted.upto = response.hi

\* a response of two chunks and a byte has been sent in more than three
\* sends, one of them partial
C16_Witness ==
    /\ response.hi = 2 * buffer_size + 1
    /\ response.lo = response.hi
    /\ sends > 3

\* C17: should_handle returns true exactly when the request meets every
\* criterion: its url starts with one of the strings listed for url, its
\* value of any other attribute is one of the values listed for it.  A
\* handler without criteria handles every request; one whose url list is
\* empty handles none.
C17_ShouldHandleIffAllCriteria ==
    match_result # <<>> =>
        /\ match_result[1] =
              \A name \in DOMAIN match_criteria :
                 LET value == IF name = "url" THEN match_request.requested_url
                              ELSE IF name = "method" THEN match_request.method
                              ELSE match_request.headers[name]
                     listed == {match_criteria[name][k] :
                                   k \in 1..Len(match_criteria[name])}
                 IN IF name = "url"
                    THEN \E p \in listed :
                            /\ Len(p) <= Len(value)
                            /\ \A j \in 1..Len(p) : value[j] = p[j]
                    ELSE value \in listed
        /\ DOMAIN match_criteria = {} => match_result[1] = TRUE
        /\ ("url" \in DOMAIN match_criteria /\ match_criteria["url"] = <<>>) =>
              match_result[1] = FALSE

\* a request that meets the first of three criteria and not the others
C17_Witness ==
    /\ match_result = <<FALSE>>
    /\ DOMAIN match_criteria = CriteriaNames
    /\ \E name \in CriteriaNames :
          CriteriaMet(match_criteria, {name}, match_request)

\* the listed prefixes the requested url starts with
MatchingPrefixes ==
    {k \in 1..Len(static_handler.criteria["url"]) :
        LET p == static_handler.criteria["url"][k]
        IN Len(p) <= Len(static_url) /\ SubSeq(static_url, 1, Len(p)) = p}

\* the url without its first n characters
UrlAfter(n) == SubSeq(static_url, n + 1, Len(static_url))

\* C18: handle_request reads only files of the index; it answers 200 only
\* when the path it looks up is in the index, and then has read that file;
\* for a url of the handler whose path is not in the index it answers 404
\* and reads nothing.
C18_ServesOnlyIndexedFiles ==
    (static_result # <<>> /\ MatchingPrefixes # {}) =>
        LET did == static_result[1] IN
        /\ did.reads \subseteq all_files
        /\ did.status = 200 =>
              /\ Path(did.path) \in all_files
              /\ did.reads = {Path(did.path)}
        /\ Path(did.path) \notin all_files =>
              /\ did.outcome = "returned"
              /\ did.status = 404
              /\ did.reads = {}

\* C19 as stated: whichever listed prefix p the url starts with, the path
\* looked up is staticRoot + the url without p.
C19_StripsEveryListedPrefix ==
    static_result # <<>> =>
        \A k \in MatchingPrefixes :
            static_result[1].path =
                static_directory_path \o UrlAfter(Len(static_handler.criteria["url"][k]))

\* C19, amended: the path looked up is staticRoot + the url without the
\* first listed prefix it starts with.
C19_StripsFirstListedPrefix ==
    (static_result # <<>> /\ MatchingPrefixes # {}) =>
        \E k \in MatchingPrefixes :
            /\ \A j \in MatchingPrefixes : k <= j
            /\ static_result[1].path =
                  static_directory_path \o UrlAfter(Len(static_handler.criteria["url"][k]))

\* a url that starts with two listed prefixes, the shorter listed first, was
\* looked up and served
C19_Witness ==
    /\ static_result # <<>>
    /\ Cardinality(MatchingPrefixes) = 2
    /\ Len(static_handler.criteria["url"][1]) < Len(static_handler.criteria["url"][2])
    /\ static_result[1].reads # {}

\* the servers of the list whose range holds the number
Holding(number) ==
    {i \in 1..Len(weighted_servers) :
        /\ weighted_servers[i].weight_range.lo <= number
        /\ number < weighted_servers[i].weight_range.hi}

\* the ranges are disjoint and cover every number from 0.0 up to 1.0
RangesPartition == \A number \in 0..(Precision - 1) : Cardinality(Holding(number)) = 1

\* C20: when the ranges are disjoint and cover [0.0, 1.0), weighted_strategy
\* returns, for every number drawn, the one server whose range holds it and
\* does not raise; it raises only for a list whose ranges are not so.
C20_WeightedPicksTheHolder ==
    weighted_result # <<>> =>
        /\ RangesPartition =>
              /\ weighted_result[1].outcome = "returned"
              /\ \A i \in 1..Len(weighted_servers) :
                    weighted_servers[i].server = weighted_result[1].server
                        <=> i \in Holding(random_num)
        /\ weighted_result[1].outcome = "raised" => ~RangesPartition

\* three servers whose ranges cover [0.0, 1.0) but are not listed in their
\* order, and the server returned is the last of the list
C20_Witness ==
    /\ weighted_result # <<>>
    /\ RangesPartition
    /\ Len(weighted_servers) = 3
    /\ weighted_servers[1].weight_range.lo > 0
    /\ weighted_result[1] = [outcome |-> "returned", server |-> "C"]

(***************************************************************************)
(* Properties of the in-service set and of closing.                        *)
(***************************************************************************)
\* C24: every socket in clients_currently_being_serviced has a thread that
\* runs handle_client_request on it, and when a thread ends, on whatever
\* path, its socket is out of the set.
C24_NoStaleMark ==
    /\ [](\A c \in clients_currently_being_serviced : threads[c] # <<>>)
    /\ [][\A c \in Clients :
             Len(threads'[c]) < Len(threads[c]) =>
                 c \notin clients_currently_being_serviced']_vars

\* C25: close_client_connection is called only on a socket that is still
\* registered and open, so a socket is unregistered and closed at most once;
\* a closed socket is not registered; and no thread calls recv or send on a
\* socket that has been closed.
C25_ClosedOnceAndNotUsedAfter ==
    /\ [](closedSocks \cap registered = {})
    /\ [][\A c \in Clients :
             /\ ((\E k \in ThreadsOn(c) : threads[c][k].pc = "close")
                   /\ Len(threads'[c]) < Len(threads[c])) =>
                     (c \in registered /\ c \notin closedSocks)
             /\ (c \notin closedSocks /\ c \in closedSocks') => c \in registered
             /\ ((\E k \in ThreadsOn(c) : threads[c][k].pc \in {"recv", "send"})
                   /\ c \in closedSocks) => threads'[c] = threads[c]]_vars

(***************************************************************************)
(* Properties of the handler manager.                                      *)
(***************************************************************************)
\* C21: when every task of the settings has a registered constructor,
\* pick_handlers returns one handler per task, in the order of the settings,
\* each constructed with the context of its task; when a task has none it
\* raises and returns no list.
C21_OneHandlerPerTaskInOrder ==
    manage_result # <<>> =>
        LET did == manage_result[1]
            n == Len(tasks_and_context)
        IN IF \A k \in 1..n : tasks_and_context[k][1] = "serveStatic"
           THEN /\ did.outcome = "returned"
                /\ Len(did.value) = 1
                /\ Len(did.value[1]) = n
                /\ \A k \in 1..n :
                      /\ did.value[1][k].class = "StaticAssetHandler"
                      /\ did.value[1][k].full_context = tasks_and_context[k][2]
           ELSE /\ did.outcome = "raised"
                /\ did.value = <<>>

\* a handler was constructed for the first task, the second task has no
\* constructor, and no list was returned
C21_Witness ==
    /\ manage_result # <<>>
    /\ Len(tasks_and_context) = MaxTasks
    /\ tasks_and_context[1][1] = "serveStatic"
    /\ manage_result[1].outcome = "raised"
    /\ manage_result[1].value = <<>>

(***************************************************************************)
(* Properties of the dispatcher and its handlers.                          *)
(***************************************************************************)
\* C22 as stated: whenever the dispatcher hands a request to a static
\* handler, the url of the request starts with one of the prefixes the
\* handler lists and remove_url_prefix returns: it does not raise.
C22_StripNeverRaisesWhenRouted ==
    (route_last.invoked # <<>>
       /\ route_handlers[route_last.invoked[1]].type = "serveStatic") =>
        LET criteria == route_handlers[route_last.invoked[1]].criteria
            url == parse_http_request(route_last.raw).requested_url
        IN /\ "url" \in DOMAIN criteria
           /\ \E k \in 1..Len(criteria["url"]) :
                 /\ Len(criteria["url"][k]) <= Len(url)
                 /\ SubSeq(url, 1, Len(criteria["url"][k])) = criteria["url"][k]
           /\ route_last.strip = "returned"

\* C22, amended: whenever the dispatcher hands a request to a static handler,
\* remove_url_prefix does not get to the raise after its loop; and when the
\* criteria of the handler have a url entry, the url of the request starts
\* with one of the prefixes listed there and remove_url_prefix returns.
C22_StripReturnsWhenUrlListed ==
    (route_last.invoked # <<>>
       /\ route_handlers[route_last.invoked[1]].type = "serveStatic") =>
        LET criteria == route_handlers[route_last.invoked[1]].criteria
            url == parse_http_request(route_last.raw).requested_url
        IN /\ route_last.strip # "Exception"
           /\ "url" \in DOMAIN criteria =>
                 /\ \E k \in 1..Len(criteria["url"]) :
                       /\ Len(criteria["url"][k]) <= Len(url)
                       /\ SubSeq(url, 1, Len(criteria["url"][k])) = criteria["url"][k]
                 /\ route_last.strip = "returned"

\* a static handler that lists no prefix was probed and passed over, and the
\* static handler after it, which lists two, stripped the url
C22_Witness ==
    /\ route_last.probed = <<1, 2>>
    /\ route_last.invoked = <<2>>
    /\ route_handlers[1].type = "serveStatic"
    /\ route_handlers[2].type = "serveStatic"
    /\ Len(route_handlers[2].criteria["url"]) = 2
    /\ route_last.strip = "returned"
    /\ route_last.status = 200

\* the handlers that pick by round robin
RoundRobinHandlers ==
    {h \in 1..Len(route_handlers) :
        route_handlers[h].type = "loadBalance"
            /\ route_handlers[h].strategy = "round_robin"}

\* C26: the server_index of a handler changes only in a call of that
\* handler's handle_request, and then by one; probes, requests handed to
\* another handler or to none and picks by weight leave it alone, so the
\* server_index of a round-robin handler is the number of requests handed
\* to it.
C26_CounterCountsRoutedRequests ==
    /\ [](\A h \in 1..Len(route_handlers) :
             IF h \in RoundRobinHandlers THEN route_index[h] = route_routed[h]
             ELSE route_index[h] = 0)
    /\ [][\A h \in 1..Len(route_handlers) :
             route_index'[h] # route_index[h] =>
                 /\ route_index'[h] = route_index[h] + 1
                 /\ route_last'.invoked = <<h>>
                 /\ route_routed'[h] = route_routed[h] + 1
                 /\ \A g \in 1..Len(route_handlers) :
                       g # h => route_index'[g] = route_index[g]]_vars

\* a handler that picks by weight has been handed a request and the
\* round-robin handler after it two, and the last request went to no handler
C26_Witness ==
    /\ Len(route_handlers) = 2
    /\ route_handlers[1].strategy = "weighted"
    /\ route_routed[1] = 1
    /\ route_index[1] = 0
    /\ 2 \in RoundRobinHandlers
    /\ route_index[2] = 1
    /\ route_last.outcome = "responded"
    /\ route_last.invoked = <<>>
    /\ route_served = MaxRouted

(***************************************************************************)
(* Properties of the cooperative handlers.                                 *)
(***************************************************************************)
\* the places of the events of an operation, and of the tasks yielded
EventsOf(op) == {i \in 1..Len(async_events) : async_events[i].op = op}
Yields(at, event) ==
    {i \in EventsOf("yield") : async_events[i].at = at /\ async_events[i].arg = event}

\* C23: the generator of handle_request does its upstream I/O in one order
\* and yields to the runtime before each part of it: when the connect is
\* under way it yields the writable task before anything is sent; every
\* chunk of the raw request is sent after a yield of the writable task; the
\* readable task is yielded after the whole request is sent and before
\* anything is read; and what handle_request returns is the response
\* connect_and_send parsed from what was read, after all of that.
C23_SuspendsInOrder ==
    /\ \A c \in EventsOf("connect") :
          /\ \A i \in 1..Len(async_events) :
                async_events[i].op \in {"yield", "send", "recv", "return", "raise"} => c < i
          /\ async_events[c].arg = "BlockingIOError" =>
                /\ c < Len(async_events)
                /\ c + 1 \in Yields("connect_and_send", "writable")
    /\ \A s \in EventsOf("send") :
          /\ \E c \in EventsOf("connect") :
                async_events[c].arg \in {"BlockingIOError", "returned"}
          /\ s - 1 \in EventsOf("yield")
          /\ async_events[s - 1].arg = "writable"
    /\ \A r \in EventsOf("recv") :
          /\ r - 1 \in Yields("connect_and_send", "readable")
          /\ \A s \in EventsOf("send") : s < r - 1
          /\ Cardinality(EventsOf("send")) = async_handler.chunks
    /\ \A y \in Yields("connect_and_send", "readable") :
          /\ \A s \in EventsOf("send") : s < y
          /\ Cardinality(EventsOf("send")) = async_handler.chunks
    /\ (async_result = <<>> /\ async_frame.pc \in {"connecting", "writable", "readable"})
          => Len(async_events) \in EventsOf("yield")
    /\ (async_result # <<>> /\ async_result[1].outcome = "returned") =>
          LET n == Len(async_events) IN
          /\ n \in EventsOf("return")
          /\ n - 1 \in EventsOf("recv")
          /\ async_events[n - 1].arg = async_handler.reply
          /\ async_events[n].arg =
                [status |-> async_handler.reply[1][2], body |-> async_handler.reply[3][1]]
          /\ async_result[1].value = <<async_events[n].arg>>
          /\ Cardinality(EventsOf("recv")) = 1

\* the load balancer's generator connected with the connection under way,
\* sent the request in MaxChunks chunks, read the reply and returned it
C23_Witness ==
    /\ async_handler.class = "AsyncLoadBalancingHandler"
    /\ async_handler.chunks = MaxChunks
    /\ async_result # <<>>
    /\ async_result[1].outcome = "returned"
    /\ async_result[1].value[1].status = 404
    /\ \E c \in EventsOf("connect") : async_events[c].arg = "BlockingIOError"
    /\ Cardinality(EventsOf("yield")) = MaxChunks + 2

====
